---- MODULE Spec2Model ----
(***************************************************************************)
(* State-machine model of the JDR backend: organizations and their        *)
(* memberships (services/organization_service.py, models/user.py,         *)
(* dependencies.py), refresh-token rotation (services/auth_service.py)    *)
(* and the session board (services/jdr_service.py).                       *)
(*                                                                         *)
(* A request handler is one atomic action.  A handler is written as an     *)
(* operator from the current database and the request to the response     *)
(* status and the committed tables, in the order of the code's checks.    *)
(* SpecRenewRace alone splits renew_token into its query, its flush and   *)
(* its commit, to interleave two requests.                                *)
(***************************************************************************)
EXTENDS Integers, Sequences, FiniteSets, TLC

\* ------------------------------------------------------------------ bounds
NumUsers == 2           \* registered users
MaxOrgs == 1            \* organizations ever created
MaxMemberships == 2     \* organization memberships ever created
MaxTokens == 2          \* refresh tokens ever issued
TickDays == 4           \* the clock advances by TickDays - 1 or TickDays days
MaxNow == 9             \* the clock stops here
MaxJdrs == 1            \* sessions ever created
MaxJdrMemberships == 1  \* session memberships ever created
MaxElements == 1        \* board elements ever created
MaxGiven == 6           \* total quantity of one item given to one character
MaxGold == 3            \* the largest finite amount of gold; above it, inf

Users == 1..NumUsers
OrgIds == 1..MaxOrgs
MembershipIds == 1..MaxMemberships

\* ------------------------------------------------------------ vocabulary
NULL == "NULL"          \* None, where a string is expected
NoRow == [id |-> 0]     \* None, where a row is expected
NoId == 0               \* NULL in a nullable integer column
OK == "200"
BAD_REQUEST == "400"
UNAUTHORIZED == "401"
FORBIDDEN == "403"
NOT_FOUND == "404"
UNPROCESSABLE == "422"  \* a request the schema refuses

GlobalUserRole == {"admin", "user"}
OrganizationRoleType == {"owner", "admin", "mj", "member", "guest"}
MembershipStatus == {"active", "pending", "invited", "suspended", "banned"}
OrganizationJoinMode == {"open", "approval", "invite_only", "closed"}
Slugs == {"guild", "tavern"}

\* The requests the organization specification draws from.
RoleInputs == {"owner", "admin", "member"}
JoinModeInputs == OrganizationJoinMode

JDRStatus == {"draft", "open", "in_progress", "paused", "completed", "cancelled"}
MembershipJDRStatus == {"pending", "active", "rejected", "kicked", "left"}

\* A dict is a function from its keys; a list is a sequence.
EmptyDict == [k \in {} |-> TRUE]

\* {**a, **b}
Merge(a, b) ==
    [k \in DOMAIN a \cup DOMAIN b |-> IF k \in DOMAIN b THEN b[k] ELSE a[k]]

\* The requests the board specification draws from.  The elements carry no
\* image, character or item reference.
JdrIdInputs == 1..(MaxJdrs + 1)         \* the last one is never created
ElementIdInputs == 1..MaxElements
JdrMembershipIdInputs == 1..MaxJdrMemberships
MaxPlayersInputs == {1, 2}
JDRUpdateInputs == {[status |-> "open"]}
BoardUpdateInputs == {[dimensions |-> [width |-> 800]]}
VisibleToInputs == {EmptyDict, [all |-> TRUE], [player_ids |-> <<1>>],
                    [player_ids |-> <<2>>], [character_ids |-> <<1>>]}
BoardElementCreateInputs ==
    {[element_type |-> "note", character_id |-> NoId, game_item_id |-> NoId,
      image_id |-> NoId, content |-> EmptyDict, position |-> [x |-> 3],
      is_visible |-> v, visible_to |-> vt] :
        v \in BOOLEAN, vt \in VisibleToInputs}
BoardElementUpdateInputs == {[is_visible |-> FALSE],
                             [visible_to |-> [player_ids |-> <<2>>],
                              position |-> [y |-> 7]]}

\* config/settings.py, services/auth_service.py
REFRESH_TOKEN_EXPIRE_DAYS == 7
CleanupRetentionDays == 7

\* The registered accounts: the administrator main.py seeds, then the users.
EmailOf == <<"admin@admin.com", "a@x.com", "b@x.com", "c@x.com">>
PasswordOf == <<"admin123", "password123", "password123", "password123">>
EmailInputs == {EmailOf[u] : u \in Users} \cup {" A@X.com ", "nobody@x.com"}
PasswordInputs == {"admin123", "password123"}
RefreshTokenInputs == 0..MaxTokens      \* 0: a string that was never issued

\* The requests the account specification draws from.  A registration may
\* carry a global_role, which RegisterSchema does not declare.
RegisterEmailInputs == {"a@x.com", " A@X.com ", "b@x.com", "c@x.com", "admin@admin.com"}
RegisterPasswordInputs == {"password123", "short"}
RequestedRoleInputs == {"admin", "user"}
UserIdInputs == 1..(NumUsers + 1)       \* the last one is never registered

VARIABLES
    users,           \* table users: id -> row
    organizations,   \* table organizations: set of rows
    memberships,     \* table organization_memberships: set of rows
    refresh_tokens,  \* table refresh_tokens: set of rows
    renewals,        \* history: token -> number of renewals it was accepted for
    workers,         \* renewals in flight: worker -> its position and database session
    jdrs,            \* table jdrs: set of rows
    jdr_memberships, \* table jdr_memberships: set of rows
    boards,          \* table boards: set of rows
    board_elements,  \* table board_elements: set of rows
    characters,      \* table characters: set of rows
    game_items,      \* table game_items: set of rows
    character_inventory, \* table character_inventory: set of rows
    given,           \* history: <<character, item>> -> total quantity given
    seq,             \* autoincrement counters, one per table
    now,             \* datetime.utcnow(), in days
    last             \* the last response: handler, status, arguments

orgVars == <<organizations, memberships>>
authVars == <<refresh_tokens, renewals, workers>>
itemVars == <<characters, game_items, character_inventory, given>>
jdrVars == <<jdrs, jdr_memberships, boards, board_elements, itemVars>>
vars == <<users, organizations, memberships, refresh_tokens, renewals, workers,
          jdrs, jdr_memberships, boards, board_elements, characters,
          game_items, character_inventory, given, seq, now, last>>

\* ids a give-item request may name: the rows of two sessions and a missing one
InventoryIdInputs == 1..(MaxJdrs + 2)
InventoryPairs == InventoryIdInputs \X InventoryIdInputs

\* no character, no item, nothing given yet
NoInventory ==
    /\ characters = {}
    /\ game_items = {}
    /\ character_inventory = {}
    /\ given = [pair \in InventoryPairs |-> 0]

\* ---------------------------------------------------------------- helpers
\* Query.first(): the row the database returns first, the lowest primary key.
First(rows) ==
    IF rows = {} THEN NoRow
    ELSE CHOOSE r \in rows : \A q \in rows : r.id <= q.id

NoArgs == [none |-> TRUE]

\* The next primary key of every table of an empty database.
FirstIds ==
    [organizations |-> 1, memberships |-> 1, refresh_tokens |-> 1,
     jdrs |-> 1, jdr_memberships |-> 1, boards |-> 1, board_elements |-> 1]

\* The requests being served concurrently, and a worker serving none.
Workers == {"w1", "w2"}
Idle == [pc |-> "idle"]

Response(op, status, args) ==
    [op |-> op, status |-> status, args |-> args]

\* ------------------------------------------------------- models/user.py
\* A hierarchy that ranks mj above admin.
role_hierarchy_MjAboveAdmin(role) ==
    CASE role = "guest" -> 0
      [] role = "member" -> 1
      [] role = "mj" -> 3
      [] role = "admin" -> 2
      [] role = "owner" -> 4
      [] OTHER -> 0

role_hierarchy(role) ==
    CASE role = "guest" -> 0
      [] role = "member" -> 1
      [] role = "mj" -> 2
      [] role = "admin" -> 3
      [] role = "owner" -> 4
      [] OTHER -> 0

organization_memberships(user_id) ==
    {m \in memberships : m.user_id = user_id}

get_organization_role(user_id, organization_id) ==
    LET membership == First({m \in organization_memberships(user_id) :
                               /\ m.organization_id = organization_id
                               /\ m.status = "active"})
    IN  IF membership # NoRow THEN membership.role ELSE NULL

is_member_of_AnyStatus(user_id, organization_id) ==
    \E m \in organization_memberships(user_id) :
        m.organization_id = organization_id

is_member_of(user_id, organization_id) ==
    \E m \in organization_memberships(user_id) :
        m.organization_id = organization_id /\ m.status = "active"

has_permission_in_org(user_id, organization_id, min_role) ==
    LET user_role == get_organization_role(user_id, organization_id)
    IN  IF user_role = NULL THEN FALSE
        ELSE role_hierarchy(user_role) >= role_hierarchy(min_role)

\* ------------------------------------------------------- dependencies.py
RequireOrgRole(min_role, organization_id, current_user) ==
    has_permission_in_org(current_user, organization_id, min_role)

require_org_admin(organization_id, current_user) ==
    RequireOrgRole("admin", organization_id, current_user)

RequireOrgMember(organization_id, current_user) ==
    is_member_of(current_user, organization_id)

require_global_admin(current_user) ==
    users[current_user].global_role = "admin"

\* ------------------------------------------------------ config/settings.py
\* passlib's bcrypt context, as the opaque service it is: a hash verifies
\* exactly the password it was made from.
hash_password(password) == [bcrypt |-> password]

verify_password(password, hashed) == hashed = [bcrypt |-> password]

\* schemas/auth.py normalize_email, auth_service: email.lower().strip()
lower_strip(email) ==
    IF email = " A@X.com " THEN "a@x.com" ELSE email

\* ----------------------------------------------- services/auth_service.py
\* Each handler yields [status, refresh_tokens, issued]: the response, the
\* table as committed, and the refresh token handed out (NoId when none).
\* create_random_refresh_token() is a fresh uuid: the token's row id stands
\* for it.
AuthRejected(tokens, status) ==
    [status |-> status, refresh_tokens |-> tokens, issued |-> NoId]

\* A cleanup that forgets whose tokens it deletes.
_cleanup_expired_tokens_EveryUser(tokens, user_id) ==
    LET cutoff_date == now - CleanupRetentionDays
    IN  {t \in tokens :
           ~ ( \/ t.expires_at < now
               \/ (t.revoked_at # NoId /\ t.revoked_at < cutoff_date) )}

_cleanup_expired_tokens(tokens, user_id) ==
    LET cutoff_date == now - CleanupRetentionDays
    IN  {t \in tokens :
           ~ ( /\ t.user_id = user_id
               /\ \/ t.expires_at < now
                  \/ (t.revoked_at # NoId /\ t.revoked_at < cutoff_date) )}

NewRefreshToken(next_id, user_id) ==
    [id |-> next_id, token |-> next_id, user_id |-> user_id,
     expires_at |-> now + REFRESH_TOKEN_EXPIRE_DAYS,
     revoked |-> FALSE, revoked_at |-> NoId]

\* A login that does not look at is_active.
authenticate_user_NoActiveCheck(tokens, next_id, raw_email, password) ==
    LET email == lower_strip(raw_email)
        found == {u \in DOMAIN users : users[u].email = email}
    IN  IF found = {} THEN AuthRejected(tokens, UNAUTHORIZED)
        ELSE LET user_id == CHOOSE u \in found : TRUE
                 user == users[user_id]
             IN  IF ~verify_password(password, user.hashed_password)
                 THEN AuthRejected(tokens, UNAUTHORIZED)
                 ELSE [status |-> OK,
                       refresh_tokens |-> _cleanup_expired_tokens(tokens, user_id)
                                            \cup {NewRefreshToken(next_id, user_id)},
                       issued |-> next_id]

authenticate_user(tokens, next_id, raw_email, password) ==
    LET email == lower_strip(raw_email)
        found == {u \in DOMAIN users : users[u].email = email}
    IN  IF found = {} THEN AuthRejected(tokens, UNAUTHORIZED)
        ELSE LET user_id == CHOOSE u \in found : TRUE
                 user == users[user_id]
             IN  IF ~user.is_active THEN AuthRejected(tokens, FORBIDDEN)
                 ELSE IF ~verify_password(password, user.hashed_password)
                 THEN AuthRejected(tokens, UNAUTHORIZED)
                 ELSE [status |-> OK,
                       refresh_tokens |-> _cleanup_expired_tokens(tokens, user_id)
                                            \cup {NewRefreshToken(next_id, user_id)},
                       issued |-> next_id]

\* A renewal that does not look at the revoked flag.
renew_token_IgnoreRevoked(tokens, next_id, refresh_token) ==
    LET token_db == First({t \in tokens : t.token = refresh_token})
    IN  IF token_db = NoRow THEN AuthRejected(tokens, UNAUTHORIZED)
        ELSE IF token_db.expires_at < now THEN AuthRejected(tokens, UNAUTHORIZED)
        ELSE [status |-> OK,
              refresh_tokens |->
                  (_cleanup_expired_tokens(tokens, token_db.user_id) \ {token_db})
                    \cup {[token_db EXCEPT !.revoked = TRUE, !.revoked_at = now],
                          NewRefreshToken(next_id, token_db.user_id)},
              issued |-> next_id]

\* A renewal that issues the new token and leaves the presented one alone.
renew_token_NoRotation(tokens, next_id, refresh_token) ==
    LET token_db == First({t \in tokens : t.token = refresh_token /\ ~t.revoked})
    IN  IF token_db = NoRow THEN AuthRejected(tokens, UNAUTHORIZED)
        ELSE IF token_db.expires_at < now THEN AuthRejected(tokens, UNAUTHORIZED)
        ELSE [status |-> OK,
              refresh_tokens |->
                  _cleanup_expired_tokens(tokens, token_db.user_id)
                    \cup {NewRefreshToken(next_id, token_db.user_id)},
              issued |-> next_id]

\* A renewal that revokes the presented token, commits, and only then looks
\* at the account.
renew_token_RevokeBeforeActiveCheck(tokens, next_id, refresh_token) ==
    LET token_db == First({t \in tokens : t.token = refresh_token /\ ~t.revoked})
    IN  IF token_db = NoRow THEN AuthRejected(tokens, UNAUTHORIZED)
        ELSE IF token_db.expires_at < now THEN AuthRejected(tokens, UNAUTHORIZED)
        ELSE IF ~users[token_db.user_id].is_active
        THEN AuthRejected((tokens \ {token_db})
                            \cup {[token_db EXCEPT !.revoked = TRUE,
                                                   !.revoked_at = now]},
                          FORBIDDEN)
        ELSE [status |-> OK,
              refresh_tokens |->
                  (_cleanup_expired_tokens(tokens, token_db.user_id) \ {token_db})
                    \cup {[token_db EXCEPT !.revoked = TRUE, !.revoked_at = now],
                          NewRefreshToken(next_id, token_db.user_id)},
              issued |-> next_id]

\* The DELETE of the cleanup runs on the table as stored (autoflush is off);
\* the commit that follows flushes the UPDATE of the presented token and the
\* INSERT of the new one.
renew_token(tokens, next_id, refresh_token) ==
    LET token_db == First({t \in tokens : t.token = refresh_token /\ ~t.revoked})
    IN  IF token_db = NoRow THEN AuthRejected(tokens, UNAUTHORIZED)
        ELSE IF token_db.expires_at < now THEN AuthRejected(tokens, UNAUTHORIZED)
        ELSE IF ~users[token_db.user_id].is_active
        THEN AuthRejected(tokens, FORBIDDEN)
        ELSE [status |-> OK,
              refresh_tokens |->
                  (_cleanup_expired_tokens(tokens, token_db.user_id) \ {token_db})
                    \cup {[token_db EXCEPT !.revoked = TRUE, !.revoked_at = now],
                          NewRefreshToken(next_id, token_db.user_id)},
              issued |-> next_id]

\* A revoked token accepted again.
revoke_token_NoRevokedCheck(tokens, refresh_token) ==
    LET token_db == First({t \in tokens : t.token = refresh_token})
    IN  IF token_db = NoRow THEN AuthRejected(tokens, NOT_FOUND)
        ELSE [status |-> OK,
              refresh_tokens |-> (tokens \ {token_db})
                  \cup {[token_db EXCEPT !.revoked = TRUE, !.revoked_at = now]},
              issued |-> NoId]

revoke_token(tokens, refresh_token) ==
    LET token_db == First({t \in tokens : t.token = refresh_token})
    IN  IF token_db = NoRow THEN AuthRejected(tokens, NOT_FOUND)
        ELSE IF token_db.revoked THEN AuthRejected(tokens, BAD_REQUEST)
        ELSE [status |-> OK,
              refresh_tokens |-> (tokens \ {token_db})
                  \cup {[token_db EXCEPT !.revoked = TRUE, !.revoked_at = now]},
              issued |-> NoId]

\* The filter on the owner left out of the UPDATE.
revoke_all_user_tokens_EveryUser(tokens, refresh_token) ==
    LET token_db == First({t \in tokens : t.token = refresh_token})
    IN  IF token_db = NoRow THEN AuthRejected(tokens, NOT_FOUND)
        ELSE IF token_db.revoked THEN AuthRejected(tokens, BAD_REQUEST)
        ELSE IF token_db.expires_at < now THEN AuthRejected(tokens, UNAUTHORIZED)
        ELSE LET mine == {t \in tokens : t.user_id = token_db.user_id /\ ~t.revoked}
                 every == {t \in tokens : ~t.revoked}
             IN  [status |-> OK,
                  refresh_tokens |-> (tokens \ every)
                      \cup {[t EXCEPT !.revoked = TRUE, !.revoked_at = now] : t \in every},
                  issued |-> Cardinality(mine)]

\* tokens_revoked, the count the response carries, is returned in issued's place.
revoke_all_user_tokens(tokens, refresh_token) ==
    LET token_db == First({t \in tokens : t.token = refresh_token})
    IN  IF token_db = NoRow THEN AuthRejected(tokens, NOT_FOUND)
        ELSE IF token_db.revoked THEN AuthRejected(tokens, BAD_REQUEST)
        ELSE IF token_db.expires_at < now THEN AuthRejected(tokens, UNAUTHORIZED)
        ELSE LET mine == {t \in tokens : t.user_id = token_db.user_id /\ ~t.revoked}
             IN  [status |-> OK,
                  refresh_tokens |-> (tokens \ mine)
                      \cup {[t EXCEPT !.revoked = TRUE, !.revoked_at = now] : t \in mine},
                  issued |-> Cardinality(mine)]

\* len(password), of the passwords the requests carry.
len(password) ==
    CASE password = "short" -> 5
      [] password = "admin123" -> 8
      [] OTHER -> 11

\* Each account handler yields [status, users]: the response and the table
\* as committed.
UsersRejected(status) == [status |-> status, users |-> users]

\* A registration that stores the global_role the request carries.
register_user_RoleFromRequest(email, password, requested_role) ==
    [status |-> OK,
     users |-> Append(users, [email |-> lower_strip(email),
                              hashed_password |-> hash_password(password),
                              global_role |-> requested_role,
                              is_active |-> TRUE])]

\* requested_role is what the request carried beside the declared fields: the
\* handler never receives it.
register_user(email, password, requested_role) ==
    LET normalized == lower_strip(email)
    IN  IF \E u \in DOMAIN users : users[u].email = normalized
        THEN UsersRejected(BAD_REQUEST)
        ELSE IF len(password) < 8 THEN UsersRejected(BAD_REQUEST)
        ELSE [status |-> OK,
              users |-> Append(users, [email |-> normalized,
                                       hashed_password |-> hash_password(password),
                                       global_role |-> "user",
                                       is_active |-> TRUE])]

promote_user(user_id, new_role) ==
    IF user_id \notin DOMAIN users THEN UsersRejected(NOT_FOUND)
    ELSE [status |-> OK,
          users |-> [users EXCEPT ![user_id].global_role = new_role]]

\* routers/auth.py
register(email, password, requested_role) ==
    IF len(password) < 8 THEN UsersRejected(UNPROCESSABLE)
    ELSE register_user(lower_strip(email), password, requested_role)

promote_user_role(current_user, user_id, new_global_role) ==
    IF ~require_global_admin(current_user) THEN UsersRejected(FORBIDDEN)
    ELSE promote_user(user_id, new_global_role)

\* ------------------------------------- services/organization_service.py
\* Each handler yields [status, organizations, memberships]: the response and
\* the tables as committed (unchanged when an HTTPException is raised).
Rejected(status) ==
    [status |-> status, organizations |-> organizations, memberships |-> memberships]

\* A creator made "admin" instead of "owner".
create_organization_CreatorAdmin(user, slug, join_mode) ==
    IF \E o \in organizations : o.slug = slug THEN Rejected(BAD_REQUEST)
    ELSE [status |-> OK,
          organizations |-> organizations \cup
              {[id |-> seq.organizations, slug |-> slug,
                join_mode |-> join_mode, is_active |-> TRUE]},
          memberships |-> memberships \cup
              {[id |-> seq.memberships, user_id |-> user,
                organization_id |-> seq.organizations, role |-> "admin",
                status |-> "active", approved_by_id |-> NoId, approved_at |-> NoId]}]

create_organization(user, slug, join_mode) ==
    IF \E o \in organizations : o.slug = slug THEN Rejected(BAD_REQUEST)
    ELSE LET org == [id |-> seq.organizations, slug |-> slug,
                     join_mode |-> join_mode, is_active |-> TRUE]
             membership == [id |-> seq.memberships, user_id |-> user,
                            organization_id |-> org.id, role |-> "owner",
                            status |-> "active",
                            approved_by_id |-> NoId, approved_at |-> NoId]
         IN  [status |-> OK,
              organizations |-> organizations \cup {org},
              memberships |-> memberships \cup {membership}]

\* The lookup of an existing membership left out.
join_organization_NoExistingCheck(user, organization_id) ==
    LET org == First({o \in organizations : o.id = organization_id})
    IN  IF org = NoRow THEN Rejected(NOT_FOUND)
        ELSE IF ~org.is_active THEN Rejected(BAD_REQUEST)
        ELSE IF org.join_mode = "closed" THEN Rejected(FORBIDDEN)
        ELSE IF org.join_mode = "invite_only" THEN Rejected(FORBIDDEN)
        ELSE LET initial_status == IF org.join_mode = "open" THEN "active"
                                   ELSE "pending"
                 membership == [id |-> seq.memberships, user_id |-> user,
                                organization_id |-> organization_id,
                                role |-> "member", status |-> initial_status,
                                approved_by_id |-> NoId, approved_at |-> NoId]
             IN  [status |-> OK, organizations |-> organizations,
                  memberships |-> memberships \cup {membership}]

\* Every accepted request made an active member at once.
join_organization_AlwaysActive(user, organization_id) ==
    LET org == First({o \in organizations : o.id = organization_id})
        existing == First({m \in memberships :
                             /\ m.user_id = user
                             /\ m.organization_id = organization_id
                             /\ m.status \in {"active", "pending"}})
    IN  IF org = NoRow THEN Rejected(NOT_FOUND)
        ELSE IF ~org.is_active THEN Rejected(BAD_REQUEST)
        ELSE IF existing # NoRow THEN Rejected(BAD_REQUEST)
        ELSE IF org.join_mode = "closed" THEN Rejected(FORBIDDEN)
        ELSE IF org.join_mode = "invite_only" THEN Rejected(FORBIDDEN)
        ELSE LET membership == [id |-> seq.memberships, user_id |-> user,
                                organization_id |-> organization_id,
                                role |-> "member", status |-> "active",
                                approved_by_id |-> NoId, approved_at |-> NoId]
             IN  [status |-> OK, organizations |-> organizations,
                  memberships |-> memberships \cup {membership}]

join_organization(user, organization_id) ==
    LET org == First({o \in organizations : o.id = organization_id})
        existing == First({m \in memberships :
                             /\ m.user_id = user
                             /\ m.organization_id = organization_id
                             /\ m.status \in {"active", "pending"}})
    IN  IF org = NoRow THEN Rejected(NOT_FOUND)
        ELSE IF ~org.is_active THEN Rejected(BAD_REQUEST)
        ELSE IF existing # NoRow THEN Rejected(BAD_REQUEST)
        ELSE IF org.join_mode = "closed" THEN Rejected(FORBIDDEN)
        ELSE IF org.join_mode = "invite_only" THEN Rejected(FORBIDDEN)
        ELSE LET initial_status == IF org.join_mode = "open" THEN "active"
                                   ELSE "pending"
                 membership == [id |-> seq.memberships, user_id |-> user,
                                organization_id |-> organization_id,
                                role |-> "member", status |-> initial_status,
                                approved_by_id |-> NoId, approved_at |-> NoId]
             IN  [status |-> OK, organizations |-> organizations,
                  memberships |-> memberships \cup {membership}]

\* The guard on the target's owner role left out.
update_member_role_NoOwnerGuard(requester, organization_id, target_user_id, new_role) ==
    LET membership == First({m \in memberships :
                               /\ m.user_id = target_user_id
                               /\ m.organization_id = organization_id})
    IN  IF ~has_permission_in_org(requester, organization_id, "admin")
        THEN Rejected(FORBIDDEN)
        ELSE IF membership = NoRow THEN Rejected(NOT_FOUND)
        ELSE [status |-> OK, organizations |-> organizations,
              memberships |-> (memberships \ {membership})
                                \cup {[membership EXCEPT !.role = new_role]}]

\* The definition bound at import: the second one of the file.
update_member_role(requester, organization_id, target_user_id, new_role) ==
    LET membership == First({m \in memberships :
                               /\ m.user_id = target_user_id
                               /\ m.organization_id = organization_id})
    IN  IF ~has_permission_in_org(requester, organization_id, "admin")
        THEN Rejected(FORBIDDEN)
        ELSE IF membership = NoRow THEN Rejected(NOT_FOUND)
        ELSE IF membership.role = "owner" THEN Rejected(BAD_REQUEST)
        ELSE [status |-> OK, organizations |-> organizations,
              memberships |-> (memberships \ {membership})
                                \cup {[membership EXCEPT !.role = new_role]}]

\* The pending membership looked up by id alone, in whatever organization.
approve_membership_AnyOrganization(requester, organization_id, membership_id) ==
    LET membership == First({m \in memberships :
                               /\ m.id = membership_id
                               /\ m.status = "pending"})
    IN  IF ~has_permission_in_org(requester, organization_id, "admin")
        THEN Rejected(FORBIDDEN)
        ELSE IF membership = NoRow THEN Rejected(NOT_FOUND)
        ELSE [status |-> OK, organizations |-> organizations,
              memberships |-> (memberships \ {membership})
                                \cup {[membership EXCEPT !.status = "active",
                                                         !.approved_by_id = requester,
                                                         !.approved_at = now]}]

approve_membership(requester, organization_id, membership_id) ==
    LET membership == First({m \in memberships :
                               /\ m.id = membership_id
                               /\ m.organization_id = organization_id
                               /\ m.status = "pending"})
    IN  IF ~has_permission_in_org(requester, organization_id, "admin")
        THEN Rejected(FORBIDDEN)
        ELSE IF membership = NoRow THEN Rejected(NOT_FOUND)
        ELSE [status |-> OK, organizations |-> organizations,
              memberships |-> (memberships \ {membership})
                                \cup {[membership EXCEPT !.status = "active",
                                                         !.approved_by_id = requester,
                                                         !.approved_at = now]}]

\* data: the fields the request sets (model_dump(exclude_unset=True)).
OrganizationUpdate ==
    {[f \in {"slug"} |-> s] : s \in Slugs}
      \cup {[f \in {"is_active"} |-> b] : b \in {FALSE}}

ApplyUpdate(row, update_data) ==
    [f \in DOMAIN row |-> IF f \in DOMAIN update_data THEN update_data[f] ELSE row[f]]

\* An update that does not look for the slug in the other organizations.
update_organization_NoSlugCheck(user, organization_id, data) ==
    LET org == First({o \in organizations : o.id = organization_id})
    IN  IF ~has_permission_in_org(user, organization_id, "admin")
        THEN Rejected(FORBIDDEN)
        ELSE IF org = NoRow THEN Rejected(NOT_FOUND)
        ELSE [status |-> OK,
              organizations |-> (organizations \ {org}) \cup {ApplyUpdate(org, data)},
              memberships |-> memberships]

update_organization(user, organization_id, data) ==
    LET org == First({o \in organizations : o.id = organization_id})
    IN  IF ~has_permission_in_org(user, organization_id, "admin")
        THEN Rejected(FORBIDDEN)
        ELSE IF org = NoRow THEN Rejected(NOT_FOUND)
        ELSE IF /\ "slug" \in DOMAIN data
                /\ data["slug"] # org.slug
                /\ \E o \in organizations :
                       o.slug = data["slug"] /\ o.id # organization_id
        THEN Rejected(BAD_REQUEST)
        ELSE [status |-> OK,
              organizations |-> (organizations \ {org}) \cup {ApplyUpdate(org, data)},
              memberships |-> memberships]

\* ------------------------------------------------ routers/organizations.py
change_member_role(current_user, organization_id, user_id, role) ==
    IF ~require_org_admin(organization_id, current_user) THEN Rejected(FORBIDDEN)
    ELSE update_member_role(current_user, organization_id, user_id, role)

approve_member(current_user, organization_id, membership_id) ==
    IF ~require_org_admin(organization_id, current_user) THEN Rejected(FORBIDDEN)
    ELSE approve_membership(current_user, organization_id, membership_id)

update_org(current_user, organization_id, data) ==
    IF ~require_org_admin(organization_id, current_user) THEN Rejected(FORBIDDEN)
    ELSE update_organization(current_user, organization_id, data)

get_organization(current_user, organization_id) ==
    LET org == First({o \in organizations : o.id = organization_id})
    IN  IF ~RequireOrgMember(organization_id, current_user) THEN Rejected(FORBIDDEN)
        ELSE IF org = NoRow THEN Rejected(NOT_FOUND)
        ELSE [status |-> OK, organizations |-> organizations,
              memberships |-> memberships]

delete_organization(current_user, organization_id) ==
    LET org == First({o \in organizations : o.id = organization_id})
    IN  IF ~require_global_admin(current_user) THEN Rejected(FORBIDDEN)
        ELSE IF org = NoRow THEN Rejected(NOT_FOUND)
        ELSE [status |-> OK,
              organizations |-> organizations \ {org},
              memberships |-> {m \in memberships : m.organization_id # organization_id}]

\* ------------------------------------------------ services/jdr_service.py
\* Each handler yields the response status, the four tables as committed
\* and the body of the response.
JdrResult(status, body) ==
    [status |-> status, jdrs |-> jdrs, jdr_memberships |-> jdr_memberships,
     boards |-> boards, board_elements |-> board_elements, body |-> body]

JdrRejected(status) == JdrResult(status, NoArgs)

_check_org_membership(user_id, organization_id) ==
    LET membership == First({m \in memberships :
                               /\ m.user_id = user_id
                               /\ m.organization_id = organization_id
                               /\ m.status = "active"})
    IN  IF membership = NoRow THEN FORBIDDEN ELSE OK

\* A check by rank in the organization instead of identity.
_check_is_mj_ByOrgRank(user, jdr_id) ==
    LET jdr == First({j \in jdrs : j.id = jdr_id})
    IN  IF jdr = NoRow THEN NOT_FOUND
        ELSE IF jdr.mj_id # user
                /\ ~has_permission_in_org(user, jdr.organization_id, "admin")
        THEN FORBIDDEN
        ELSE OK

_check_is_mj(user, jdr_id) ==
    LET jdr == First({j \in jdrs : j.id = jdr_id})
    IN  IF jdr = NoRow THEN NOT_FOUND
        ELSE IF jdr.mj_id # user THEN FORBIDDEN
        ELSE OK

\* A check that takes a pending membership for an active one.
_check_is_player_AnyStatus(user_id, jdr_id) ==
    LET membership == First({m \in jdr_memberships :
                               m.user_id = user_id /\ m.jdr_id = jdr_id})
    IN  IF membership = NoRow THEN FORBIDDEN ELSE OK

_check_is_player(user_id, jdr_id) ==
    LET membership == First({m \in jdr_memberships :
                               /\ m.user_id = user_id
                               /\ m.jdr_id = jdr_id
                               /\ m.status = "active"})
    IN  IF membership = NoRow THEN FORBIDDEN ELSE OK

DefaultDimensions ==
    [width |-> 1920, height |-> 1080, grid_size |-> 50, scale |-> 1,
     show_grid |-> TRUE, grid_color |-> "#CCCCCC", background_color |-> "#1a1a2e"]

\* The session committed without its board.
create_jdr_WithoutBoard(user, organization_id, data) ==
    IF _check_org_membership(user, organization_id) # OK THEN JdrRejected(FORBIDDEN)
    ELSE LET jdr == [id |-> seq.jdrs, organization_id |-> organization_id,
                     mj_id |-> user, max_players |-> data.max_players,
                     status |-> "draft"]
         IN  [JdrResult(OK, NoArgs) EXCEPT !.jdrs = jdrs \cup {jdr}]

create_jdr(user, organization_id, data) ==
    IF _check_org_membership(user, organization_id) # OK THEN JdrRejected(FORBIDDEN)
    ELSE LET jdr == [id |-> seq.jdrs, organization_id |-> organization_id,
                     mj_id |-> user, max_players |-> data.max_players,
                     status |-> "draft"]
             board == [id |-> seq.boards, jdr_id |-> jdr.id,
                       dimensions |-> DefaultDimensions]
         IN  [JdrResult(OK, NoArgs) EXCEPT !.jdrs = jdrs \cup {jdr},
                                           !.boards = boards \cup {board}]

update_jdr(user, jdr_id, data) ==
    LET checked == _check_is_mj(user, jdr_id)
        jdr == First({j \in jdrs : j.id = jdr_id})
    IN  IF checked # OK THEN JdrRejected(checked)
        ELSE [JdrResult(OK, NoArgs) EXCEPT
                 !.jdrs = (jdrs \ {jdr}) \cup {Merge(jdr, data)}]

\* The count of active players left out.
join_jdr_NoCapacityCheck(user, jdr_id) ==
    LET jdr == First({j \in jdrs : j.id = jdr_id})
        existing == First({m \in jdr_memberships :
                             /\ m.user_id = user
                             /\ m.jdr_id = jdr_id
                             /\ m.status \in {"active", "pending"}})
    IN  IF jdr = NoRow THEN JdrRejected(NOT_FOUND)
        ELSE IF jdr.status \notin {"open", "in_progress"} THEN JdrRejected(BAD_REQUEST)
        ELSE IF _check_org_membership(user, jdr.organization_id) # OK
        THEN JdrRejected(FORBIDDEN)
        ELSE IF existing # NoRow THEN JdrRejected(BAD_REQUEST)
        ELSE [JdrResult(OK, NoArgs) EXCEPT
                 !.jdr_memberships = jdr_memberships \cup
                     {[id |-> seq.jdr_memberships, jdr_id |-> jdr_id,
                       user_id |-> user, status |-> "pending",
                       approved_by_id |-> NoId, approved_at |-> NoId]}]

join_jdr(user, jdr_id) ==
    LET jdr == First({j \in jdrs : j.id = jdr_id})
        existing == First({m \in jdr_memberships :
                             /\ m.user_id = user
                             /\ m.jdr_id = jdr_id
                             /\ m.status \in {"active", "pending"}})
        active_count == Cardinality({m \in jdr_memberships :
                                       m.jdr_id = jdr_id /\ m.status = "active"})
    IN  IF jdr = NoRow THEN JdrRejected(NOT_FOUND)
        ELSE IF jdr.status \notin {"open", "in_progress"} THEN JdrRejected(BAD_REQUEST)
        ELSE IF _check_org_membership(user, jdr.organization_id) # OK
        THEN JdrRejected(FORBIDDEN)
        ELSE IF existing # NoRow THEN JdrRejected(BAD_REQUEST)
        ELSE IF active_count >= jdr.max_players THEN JdrRejected(BAD_REQUEST)
        ELSE [JdrResult(OK, NoArgs) EXCEPT
                 !.jdr_memberships = jdr_memberships \cup
                     {[id |-> seq.jdr_memberships, jdr_id |-> jdr_id,
                       user_id |-> user, status |-> "pending",
                       approved_by_id |-> NoId, approved_at |-> NoId]}]

\* Approval open to whoever asks.
approve_player_NoMjCheck(mj, jdr_id, membership_id) ==
    LET jdr == First({j \in jdrs : j.id = jdr_id})
        membership == First({m \in jdr_memberships :
                               /\ m.id = membership_id
                               /\ m.jdr_id = jdr_id
                               /\ m.status = "pending"})
    IN  IF jdr = NoRow THEN JdrRejected(NOT_FOUND)
        ELSE IF membership = NoRow THEN JdrRejected(NOT_FOUND)
        ELSE [JdrResult(OK, NoArgs) EXCEPT
                 !.jdr_memberships = (jdr_memberships \ {membership}) \cup
                     {[membership EXCEPT !.status = "active",
                                         !.approved_by_id = mj,
                                         !.approved_at = now]}]

approve_player(mj, jdr_id, membership_id) ==
    LET checked == _check_is_mj(mj, jdr_id)
        membership == First({m \in jdr_memberships :
                               /\ m.id = membership_id
                               /\ m.jdr_id = jdr_id
                               /\ m.status = "pending"})
    IN  IF checked # OK THEN JdrRejected(checked)
        ELSE IF membership = NoRow THEN JdrRejected(NOT_FOUND)
        ELSE [JdrResult(OK, NoArgs) EXCEPT
                 !.jdr_memberships = (jdr_memberships \ {membership}) \cup
                     {[membership EXCEPT !.status = "active",
                                         !.approved_by_id = mj,
                                         !.approved_at = now]}]

\* A filter that shows every element to every player.
_is_visible_to_user_Everyone(element, user_id) == TRUE

\* visible_to = None
NoneDict == [None |-> TRUE]

\* A filter that asks player_ids before all.
_is_visible_to_user_PlayerIdsFirst(element, user_id) ==
    LET visible_to == element.visible_to
        character == First({c \in characters : c.id = element.character_id})
    IN  IF visible_to = NoneDict \/ visible_to = EmptyDict THEN TRUE
        ELSE IF "player_ids" \in DOMAIN visible_to
        THEN \E i \in DOMAIN visible_to["player_ids"] :
                 visible_to["player_ids"][i] = user_id
        ELSE IF "all" \in DOMAIN visible_to /\ visible_to["all"] = TRUE THEN TRUE
        ELSE IF "character_ids" \in DOMAIN visible_to
        THEN IF element.character_id # NoId /\ character # NoRow
             THEN character.owner_id = user_id
             ELSE FALSE
        ELSE FALSE

\* A filter that looks the linked character up in character_ids.
_is_visible_to_user_ListedCharacter(element, user_id) ==
    LET visible_to == element.visible_to
        character == First({c \in characters : c.id = element.character_id})
    IN  IF visible_to = NoneDict \/ visible_to = EmptyDict THEN TRUE
        ELSE IF "all" \in DOMAIN visible_to /\ visible_to["all"] = TRUE THEN TRUE
        ELSE IF "player_ids" \in DOMAIN visible_to
        THEN \E i \in DOMAIN visible_to["player_ids"] :
                 visible_to["player_ids"][i] = user_id
        ELSE IF "character_ids" \in DOMAIN visible_to
        THEN IF element.character_id # NoId /\ character # NoRow
             THEN /\ character.owner_id = user_id
                  /\ \E i \in DOMAIN visible_to["character_ids"] :
                         visible_to["character_ids"][i] = character.id
             ELSE FALSE
        ELSE FALSE

\* A filter that admits every player when no mode applies.
_is_visible_to_user_DefaultAllow(element, user_id) ==
    LET visible_to == element.visible_to
        character == First({c \in characters : c.id = element.character_id})
    IN  IF visible_to = NoneDict \/ visible_to = EmptyDict THEN TRUE
        ELSE IF "all" \in DOMAIN visible_to /\ visible_to["all"] = TRUE THEN TRUE
        ELSE IF "player_ids" \in DOMAIN visible_to
        THEN \E i \in DOMAIN visible_to["player_ids"] :
                 visible_to["player_ids"][i] = user_id
        ELSE IF "character_ids" \in DOMAIN visible_to
        THEN IF element.character_id # NoId /\ character # NoRow
             THEN character.owner_id = user_id
             ELSE FALSE
        ELSE TRUE

\* element.character is the row element.character_id refers to.
_is_visible_to_user(element, user_id) ==
    LET visible_to == element.visible_to
        character == First({c \in characters : c.id = element.character_id})
    IN  IF visible_to = NoneDict \/ visible_to = EmptyDict THEN TRUE
        ELSE IF "all" \in DOMAIN visible_to /\ visible_to["all"] = TRUE THEN TRUE
        ELSE IF "player_ids" \in DOMAIN visible_to
        THEN \E i \in DOMAIN visible_to["player_ids"] :
                 visible_to["player_ids"][i] = user_id
        ELSE IF "character_ids" \in DOMAIN visible_to
        THEN IF element.character_id # NoId /\ character # NoRow
             THEN character.owner_id = user_id
             ELSE FALSE
        ELSE FALSE

\* The session flushed after board.elements is assigned: the elements left
\* out of the relationship are orphans, and delete-orphan deletes them.
get_board_Flushed(user, jdr_id) ==
    LET jdr == First({j \in jdrs : j.id = jdr_id})
        is_mj == jdr.mj_id = user
        board == First({b \in boards : b.jdr_id = jdr_id})
        elements == {el \in board_elements : el.board_id = board.id}
        kept == {el \in elements : el.is_visible /\ _is_visible_to_user(el, user)}
    IN  IF jdr = NoRow THEN JdrRejected(NOT_FOUND)
        ELSE IF ~is_mj /\ _check_is_player(user, jdr_id) # OK THEN JdrRejected(FORBIDDEN)
        ELSE IF board = NoRow THEN JdrRejected(NOT_FOUND)
        ELSE IF is_mj THEN JdrResult(OK, elements)
        ELSE [JdrResult(OK, kept) EXCEPT
                 !.board_elements = board_elements \ (elements \ kept)]

\* The elements of the board to every reader.
get_board_Unfiltered(user, jdr_id) ==
    LET jdr == First({j \in jdrs : j.id = jdr_id})
        is_mj == jdr.mj_id = user
        board == First({b \in boards : b.jdr_id = jdr_id})
        elements == {el \in board_elements : el.board_id = board.id}
    IN  IF jdr = NoRow THEN JdrRejected(NOT_FOUND)
        ELSE IF ~is_mj /\ _check_is_player(user, jdr_id) # OK THEN JdrRejected(FORBIDDEN)
        ELSE IF board = NoRow THEN JdrRejected(NOT_FOUND)
        ELSE JdrResult(OK, elements)

\* The body is the set of the elements the response carries.  The request's
\* database session is never flushed or committed (autoflush is off and
\* get_board has no db.commit()), so the assignment to board.elements stays
\* in the session's objects and the rows are returned as they are stored.
get_board(user, jdr_id) ==
    LET jdr == First({j \in jdrs : j.id = jdr_id})
        is_mj == jdr.mj_id = user
        board == First({b \in boards : b.jdr_id = jdr_id})
        elements == {el \in board_elements : el.board_id = board.id}
    IN  IF jdr = NoRow THEN JdrRejected(NOT_FOUND)
        ELSE IF ~is_mj /\ _check_is_player(user, jdr_id) # OK THEN JdrRejected(FORBIDDEN)
        ELSE IF board = NoRow THEN JdrRejected(NOT_FOUND)
        ELSE JdrResult(OK,
                 IF is_mj THEN elements
                 ELSE {el \in elements :
                         el.is_visible /\ _is_visible_to_user(el, user)})

\* The dimensions replaced by the request's instead of merged with them.
update_board_Overwrite(mj, jdr_id, data) ==
    LET checked == _check_is_mj(mj, jdr_id)
        board == First({b \in boards : b.jdr_id = jdr_id})
    IN  IF checked # OK THEN JdrRejected(checked)
        ELSE IF board = NoRow THEN JdrRejected(NOT_FOUND)
        ELSE [JdrResult(OK, NoArgs) EXCEPT
                 !.boards = (boards \ {board}) \cup
                     {IF "dimensions" \in DOMAIN data
                      THEN [board EXCEPT !.dimensions = data.dimensions]
                      ELSE board}]

update_board(mj, jdr_id, data) ==
    LET checked == _check_is_mj(mj, jdr_id)
        board == First({b \in boards : b.jdr_id = jdr_id})
    IN  IF checked # OK THEN JdrRejected(checked)
        ELSE IF board = NoRow THEN JdrRejected(NOT_FOUND)
        ELSE [JdrResult(OK, NoArgs) EXCEPT
                 !.boards = (boards \ {board}) \cup
                     {IF "dimensions" \in DOMAIN data
                      THEN [board EXCEPT
                               !.dimensions = Merge(board.dimensions, data.dimensions)]
                      ELSE board}]

\* schemas/jdr.py, BoardElementCreate.validate_position
validate_position(v) ==
    Merge([x |-> 0, y |-> 0, z |-> 0, width |-> 100, height |-> 100,
           rotation |-> 0, scale |-> 1, opacity |-> 1, locked |-> FALSE], v)

\* The request body parsed by the schema: a field validator runs on the
\* value the request supplies and not on the default of an omitted field.
BoardElementCreate(body) ==
    Merge([character_id |-> NoId, game_item_id |-> NoId, image_id |-> NoId,
           content |-> EmptyDict, position |-> EmptyDict, is_visible |-> TRUE,
           visible_to |-> [all |-> TRUE]],
          IF "position" \in DOMAIN body
          THEN [body EXCEPT !.position = validate_position(@)]
          ELSE body)

\* An element added without looking its character and its item up.
add_board_element_NoReferenceCheck(mj, jdr_id, data) ==
    LET checked == _check_is_mj(mj, jdr_id)
        board == First({b \in boards : b.jdr_id = jdr_id})
    IN  IF checked # OK THEN JdrRejected(checked)
        ELSE IF board = NoRow THEN JdrRejected(NOT_FOUND)
        ELSE [JdrResult(OK, NoArgs) EXCEPT
                 !.board_elements = board_elements \cup
                     {[id |-> seq.board_elements, board_id |-> board.id,
                       element_type |-> data.element_type,
                       character_id |-> data.character_id,
                       game_item_id |-> data.game_item_id,
                       image_id |-> data.image_id,
                       content |-> data.content,
                       position |-> data.position,
                       is_visible |-> data.is_visible,
                       visible_to |-> data.visible_to]}]

\* The requests carry no image_id, so _check_image_exists is not reached.
add_board_element(mj, jdr_id, data) ==
    LET checked == _check_is_mj(mj, jdr_id)
        board == First({b \in boards : b.jdr_id = jdr_id})
        character == First({c \in characters :
                              c.id = data.character_id /\ c.jdr_id = jdr_id})
        game_item == First({g \in game_items :
                              g.id = data.game_item_id /\ g.jdr_id = jdr_id})
    IN  IF checked # OK THEN JdrRejected(checked)
        ELSE IF board = NoRow THEN JdrRejected(NOT_FOUND)
        ELSE IF data.character_id # NoId /\ character = NoRow
        THEN JdrRejected(NOT_FOUND)
        ELSE IF data.game_item_id # NoId /\ game_item = NoRow
        THEN JdrRejected(NOT_FOUND)
        ELSE [JdrResult(OK, NoArgs) EXCEPT
                 !.board_elements = board_elements \cup
                     {[id |-> seq.board_elements, board_id |-> board.id,
                       element_type |-> data.element_type,
                       character_id |-> data.character_id,
                       game_item_id |-> data.game_item_id,
                       image_id |-> data.image_id,
                       content |-> data.content,
                       position |-> data.position,
                       is_visible |-> data.is_visible,
                       visible_to |-> data.visible_to]}]

update_board_element(mj, jdr_id, element_id, data) ==
    LET checked == _check_is_mj(mj, jdr_id)
        board == First({b \in boards : b.jdr_id = jdr_id})
        element == First({el \in board_elements :
                            el.id = element_id /\ el.board_id = board.id})
        merged == [k \in DOMAIN data |->
                     IF k \in {"position", "content"}
                     THEN Merge(element[k], data[k])
                     ELSE data[k]]
    IN  IF checked # OK THEN JdrRejected(checked)
        ELSE IF board = NoRow THEN JdrRejected(NOT_FOUND)
        ELSE IF element = NoRow THEN JdrRejected(NOT_FOUND)
        ELSE [JdrResult(OK, NoArgs) EXCEPT
                 !.board_elements = (board_elements \ {element})
                                      \cup {Merge(element, merged)}]

\* A deletion that finds the element on any board.
delete_board_element_AnyBoard(mj, jdr_id, element_id) ==
    LET checked == _check_is_mj(mj, jdr_id)
        board == First({b \in boards : b.jdr_id = jdr_id})
        element == First({el \in board_elements : el.id = element_id})
    IN  IF checked # OK THEN JdrRejected(checked)
        ELSE IF board = NoRow THEN JdrRejected(NOT_FOUND)
        ELSE IF element = NoRow THEN JdrRejected(NOT_FOUND)
        ELSE [JdrResult(OK, NoArgs) EXCEPT
                 !.board_elements = board_elements \ {element}]

delete_board_element(mj, jdr_id, element_id) ==
    LET checked == _check_is_mj(mj, jdr_id)
        board == First({b \in boards : b.jdr_id = jdr_id})
        element == First({el \in board_elements :
                            el.id = element_id /\ el.board_id = board.id})
    IN  IF checked # OK THEN JdrRejected(checked)
        ELSE IF board = NoRow THEN JdrRejected(NOT_FOUND)
        ELSE IF element = NoRow THEN JdrRejected(NOT_FOUND)
        ELSE [JdrResult(OK, NoArgs) EXCEPT
                 !.board_elements = board_elements \ {element}]

\* ------------------------------------------------------------------ actions
\* The autoincrement counters advance by the rows a handler inserted.
Commit(op, result, args) ==
    LET out == result
    IN  /\ organizations' = out.organizations
        /\ memberships' = out.memberships
        /\ seq' = [seq EXCEPT
                     !.organizations = IF \E o \in out.organizations : o.id = @
                                       THEN @ + 1 ELSE @,
                     !.memberships = IF \E m \in out.memberships : m.id = @
                                     THEN @ + 1 ELSE @]
        /\ last' = Response(op, out.status, IF out.status = OK THEN args ELSE NoArgs)
        /\ UNCHANGED <<users, authVars, jdrVars, now>>

CreateOrg ==
    \E user \in Users, slug \in Slugs, join_mode \in JoinModeInputs :
        LET out == create_organization(user, slug, join_mode)
        IN  /\ out.status = OK => /\ seq.organizations <= MaxOrgs
                                  /\ seq.memberships <= MaxMemberships
            /\ Commit("create_org", out, [user |-> user])

JoinOrg ==
    \E user \in Users, organization_id \in OrgIds :
        LET out == join_organization(user, organization_id)
        IN  /\ out.status = OK => seq.memberships <= MaxMemberships
            /\ Commit("join_org", out, NoArgs)

ChangeMemberRole ==
    \E user \in Users, organization_id \in OrgIds, user_id \in Users,
       role \in RoleInputs :
        Commit("change_member_role",
               change_member_role(user, organization_id, user_id, role),
               NoArgs)

ApproveMember ==
    \E user \in Users, organization_id \in OrgIds, membership_id \in MembershipIds :
        Commit("approve_member",
               approve_member(user, organization_id, membership_id), NoArgs)

UpdateOrg ==
    \E user \in Users, organization_id \in OrgIds, data \in OrganizationUpdate :
        Commit("update_org", update_org(user, organization_id, data), NoArgs)

GetOrg ==
    \E user \in Users, organization_id \in OrgIds :
        Commit("get_organization", get_organization(user, organization_id),
               [user |-> user])

DeleteOrg ==
    \E user \in Users, organization_id \in OrgIds :
        Commit("delete_organization", delete_organization(user, organization_id),
               NoArgs)

\* The application after startup: the seeded administrator (main.py) is user 1,
\* the other users have registered (global role "user"), nothing else exists.
Init ==
    /\ users = [u \in Users |->
                  [email |-> EmailOf[u],
                   hashed_password |-> hash_password(PasswordOf[u]),
                   global_role |-> IF u = 1 THEN "admin" ELSE "user",
                   is_active |-> TRUE]]
    /\ organizations = {}
    /\ memberships = {}
    /\ refresh_tokens = {}
    /\ renewals = <<>>
    /\ workers = [w \in Workers |-> Idle]
    /\ jdrs = {}
    /\ jdr_memberships = {}
    /\ boards = {}
    /\ board_elements = {}
    /\ NoInventory
    /\ seq = FirstIds
    /\ now = 1
    /\ last = Response("startup", OK, NoArgs)

Next ==
    \/ CreateOrg
    \/ JoinOrg
    \/ ChangeMemberRole
    \/ ApproveMember
    \/ UpdateOrg
    \/ GetOrg
    \/ DeleteOrg

Spec == Init /\ [][Next]_vars

\* ---------------------------------------------------- actions: routers/auth.py
CommitAuth(op, result, args) ==
    LET out == result
    IN  /\ refresh_tokens' = out.refresh_tokens
        /\ seq' = [seq EXCEPT !.refresh_tokens =
                      IF \E t \in out.refresh_tokens : t.id = @ THEN @ + 1 ELSE @]
        /\ last' = Response(op, out.status, args @@ [issued |-> out.issued])
        /\ UNCHANGED <<users, orgVars, workers, jdrVars, now>>

Login ==
    \E email \in EmailInputs, password \in PasswordInputs :
        LET out == authenticate_user(refresh_tokens, seq.refresh_tokens, email, password)
        IN  /\ out.status = OK => seq.refresh_tokens <= MaxTokens
            /\ CommitAuth("login", out, NoArgs)
            /\ UNCHANGED renewals

Refresh ==
    \E refresh_token \in RefreshTokenInputs :
        LET out == renew_token(refresh_tokens, seq.refresh_tokens, refresh_token)
        IN  /\ out.status = OK => seq.refresh_tokens <= MaxTokens
            /\ CommitAuth("refresh", out, [refresh_token |-> refresh_token])
            /\ renewals' =
                 IF out.status # OK THEN renewals
                 ELSE IF refresh_token \in DOMAIN renewals
                 THEN [renewals EXCEPT ![refresh_token] = @ + 1]
                 ELSE renewals @@ (refresh_token :> 1)

Logout ==
    \E refresh_token \in RefreshTokenInputs :
        /\ CommitAuth("logout", revoke_token(refresh_tokens, refresh_token), NoArgs)
        /\ UNCHANGED renewals

LogoutAll ==
    \E refresh_token \in RefreshTokenInputs :
        /\ CommitAuth("logout_all", revoke_all_user_tokens(refresh_tokens, refresh_token),
                      NoArgs)
        /\ UNCHANGED renewals

\* Time passes between requests.
Tick ==
    \E days \in {TickDays - 1, TickDays} :
        /\ now + days <= MaxNow
        /\ now' = now + days
        /\ last' = Response("tick", OK, NoArgs)
        /\ UNCHANGED <<users, orgVars, authVars, jdrVars, seq>>

NextAuth ==
    \/ Login
    \/ Refresh
    \/ Logout
    \/ LogoutAll
    \/ Tick

SpecAuth == Init /\ [][NextAuth]_vars

\* ------------------------------------------- actions: accounts, routers/auth.py
Register ==
    \E email \in RegisterEmailInputs, password \in RegisterPasswordInputs,
       requested_role \in RequestedRoleInputs :
        LET out == register(email, password, requested_role)
        IN  /\ out.status = OK => Len(users) < NumUsers
            /\ users' = out.users
            /\ last' = Response("register", out.status,
                                [requested_role |-> requested_role])
            /\ UNCHANGED <<orgVars, authVars, jdrVars, seq, now>>

Promote ==
    \E current_user \in DOMAIN users, user_id \in UserIdInputs,
       new_global_role \in GlobalUserRole :
        LET out == promote_user_role(current_user, user_id, new_global_role)
        IN  /\ users' = out.users
            /\ last' = Response("promote", out.status,
                                [current_user |-> current_user, user_id |-> user_id])
            /\ UNCHANGED <<orgVars, authVars, jdrVars, seq, now>>

\* main.py: the tables are created and the administrator is seeded.
InitUsers ==
    /\ users = <<[email |-> EmailOf[1],
                  hashed_password |-> hash_password(PasswordOf[1]),
                  global_role |-> "admin",
                  is_active |-> TRUE]>>
    /\ organizations = {}
    /\ memberships = {}
    /\ refresh_tokens = {}
    /\ renewals = <<>>
    /\ workers = [w \in Workers |-> Idle]
    /\ jdrs = {}
    /\ jdr_memberships = {}
    /\ boards = {}
    /\ board_elements = {}
    /\ NoInventory
    /\ seq = FirstIds
    /\ now = 1
    /\ last = Response("startup", OK, NoArgs)

NextUsers ==
    \/ Register
    \/ Promote

SpecUsers == InitUsers /\ [][NextUsers]_vars

\* -------------------------------------------- concurrent renewals of a token
\* One renew_token request per worker, each in its own database session and
\* transaction.  The engine sets no isolation level: every statement reads
\* the rows committed when it runs, an UPDATE or DELETE waits for the rows
\* another transaction wrote and has not committed yet.  A request is short:
\* the clock does not advance while one is in flight.  A renewal starts only
\* while fewer than MaxTokens tokens were issued.

\* Lines 96-124: the query and the checks made on the row it returned.
RenewQuery(w) ==
    \E refresh_token \in RefreshTokenInputs :
        LET token_db == First({t \in refresh_tokens :
                                 t.token = refresh_token /\ ~t.revoked})
            refused == IF token_db = NoRow THEN UNAUTHORIZED
                       ELSE IF token_db.expires_at < now THEN UNAUTHORIZED
                       ELSE IF ~users[token_db.user_id].is_active THEN FORBIDDEN
                       ELSE OK
        IN  /\ workers[w] = Idle
            /\ refused = OK => seq.refresh_tokens <= MaxTokens
            /\ IF refused # OK
               THEN /\ last' = Response("refresh", refused,
                                        [refresh_token |-> refresh_token, issued |-> NoId])
                    /\ UNCHANGED workers
               ELSE /\ workers' = [workers EXCEPT ![w] =
                                      [pc |-> "queried", token_db |-> token_db]]
                    /\ UNCHANGED last
            /\ UNCHANGED <<users, orgVars, refresh_tokens, renewals, jdrVars, seq, now>>

\* The rows a worker wrote and has not committed.
LockedBy(w) ==
    IF workers[w].pc = "flushed"
    THEN workers[w].deleted \cup {workers[w].token_db.id}
    ELSE {}

\* Lines 126-138 and 233-246: the DELETE of the cleanup, then the flush of
\* the UPDATE of the presented token and of the INSERT of the new one.
RenewFlush(w) ==
    /\ workers[w].pc = "queried"
    /\ LET token_db == workers[w].token_db
           deleted == {t.id : t \in refresh_tokens
                                \ _cleanup_expired_tokens(refresh_tokens, token_db.user_id)}
       IN  /\ \A other \in Workers \ {w} :
                  LockedBy(other) \cap (deleted \cup {token_db.id}) = {}
           /\ workers' = [workers EXCEPT ![w] =
                            [pc |-> "flushed", token_db |-> token_db,
                             deleted |-> deleted, revoked_at |-> now,
                             new_refresh_db |->
                                 NewRefreshToken(seq.refresh_tokens, token_db.user_id)]]
           /\ seq' = [seq EXCEPT !.refresh_tokens = @ + 1]
    /\ UNCHANGED <<users, orgVars, refresh_tokens, renewals, jdrVars, now, last>>

\* Lines 246 and 140-150: the commit, and the response with the new token.
RenewCommit(w) ==
    /\ workers[w].pc = "flushed"
    /\ LET mine == workers[w]
           kept == {t \in refresh_tokens : t.id \notin mine.deleted}
           updated == {IF t.id = mine.token_db.id
                       THEN [t EXCEPT !.revoked = TRUE, !.revoked_at = mine.revoked_at]
                       ELSE t : t \in kept}
           presented == mine.token_db.token
       IN  /\ refresh_tokens' = updated \cup {mine.new_refresh_db}
           /\ renewals' = IF presented \in DOMAIN renewals
                          THEN [renewals EXCEPT ![presented] = @ + 1]
                          ELSE renewals @@ (presented :> 1)
           /\ last' = Response("refresh", OK,
                               [refresh_token |-> presented,
                                issued |-> mine.new_refresh_db.token])
    /\ workers' = [workers EXCEPT ![w] = Idle]
    /\ UNCHANGED <<users, orgVars, jdrVars, seq, now>>

LoginBetweenRenewals ==
    /\ \A w \in Workers : workers[w] = Idle
    /\ Login

TickBetweenRenewals ==
    /\ \A w \in Workers : workers[w] = Idle
    /\ Tick

NextRenewRace ==
    \/ \E w \in Workers : RenewQuery(w)
    \/ \E w \in Workers : RenewFlush(w)
    \/ \E w \in Workers : RenewCommit(w)
    \/ LoginBetweenRenewals
    \/ TickBetweenRenewals

SpecRenewRace == Init /\ [][NextRenewRace]_vars

\* ------------------------------------------ the role check as a pure function
\* The memberships of one organization: every user has no membership or one
\* membership, of any role, active or still pending, and an active owner
\* exists.
RankScenarios ==
    LET choices == {f \in [Users -> [role : OrganizationRoleType \cup {NULL},
                                      status : {"active", "pending"}]] :
                      /\ \A u \in Users : f[u].role = NULL => f[u].status = "pending"
                      /\ \E u \in Users : f[u].role = "owner" /\ f[u].status = "active"}
    IN  {{[id |-> u, user_id |-> u, organization_id |-> 1,
           role |-> f[u].role, status |-> f[u].status,
           approved_by_id |-> NoId, approved_at |-> NoId] :
             u \in {v \in Users : f[v].role # NULL}} : f \in choices}

InitRank ==
    /\ users = [u \in Users |->
                  [email |-> EmailOf[u],
                   hashed_password |-> hash_password(PasswordOf[u]),
                   global_role |-> IF u = 1 THEN "admin" ELSE "user",
                   is_active |-> TRUE]]
    /\ organizations = {[id |-> 1, slug |-> "guild", join_mode |-> "approval",
                         is_active |-> TRUE]}
    /\ memberships \in RankScenarios
    /\ refresh_tokens = {}
    /\ renewals = <<>>
    /\ workers = [w \in Workers |-> Idle]
    /\ jdrs = {}
    /\ jdr_memberships = {}
    /\ boards = {}
    /\ board_elements = {}
    /\ NoInventory
    /\ seq = [FirstIds EXCEPT !.organizations = 2, !.memberships = NumUsers + 1]
    /\ now = 1
    /\ last = Response("startup", OK, NoArgs)

CheckPermission ==
    \E user \in Users, min_role \in OrganizationRoleType :
        /\ last' = Response("has_permission_in_org", OK,
                            [user |-> user, min_role |-> min_role,
                             granted |-> has_permission_in_org(user, 1, min_role)])
        /\ UNCHANGED <<users, orgVars, authVars, jdrVars, seq, now>>

NextRank == CheckPermission

SpecRank == InitRank /\ [][NextRank]_vars

\* --------------------------------------------------- actions: routers/jdr.py
CommitJdr(op, result, args) ==
    LET out == result
    IN  /\ jdrs' = out.jdrs
        /\ jdr_memberships' = out.jdr_memberships
        /\ boards' = out.boards
        /\ board_elements' = out.board_elements
        /\ seq' = [seq EXCEPT
                     !.jdrs = IF \E r \in out.jdrs : r.id = @ THEN @ + 1 ELSE @,
                     !.jdr_memberships = IF \E r \in out.jdr_memberships : r.id = @
                                         THEN @ + 1 ELSE @,
                     !.boards = IF \E r \in out.boards : r.id = @ THEN @ + 1 ELSE @,
                     !.board_elements = IF \E r \in out.board_elements : r.id = @
                                        THEN @ + 1 ELSE @]
        /\ last' = Response(op, out.status, args)
        /\ UNCHANGED <<users, orgVars, authVars, itemVars, now>>

CreateJdr ==
    \E user \in Users, max_players \in MaxPlayersInputs :
        LET out == create_jdr(user, 1, [max_players |-> max_players])
        IN  /\ out.status = OK => seq.jdrs <= MaxJdrs
            /\ CommitJdr("create_jdr", out, NoArgs)

UpdateJdr ==
    \E user \in Users, jdr_id \in JdrIdInputs, data \in JDRUpdateInputs :
        CommitJdr("update_jdr", update_jdr(user, jdr_id, data), NoArgs)

JoinJdr ==
    \E user \in Users, jdr_id \in JdrIdInputs :
        LET out == join_jdr(user, jdr_id)
        IN  /\ out.status = OK => seq.jdr_memberships <= MaxJdrMemberships
            /\ CommitJdr("join_jdr", out, NoArgs)

ApprovePlayer ==
    \E user \in Users, jdr_id \in JdrIdInputs, membership_id \in JdrMembershipIdInputs :
        CommitJdr("approve_player", approve_player(user, jdr_id, membership_id), NoArgs)

GetBoard ==
    \E user \in Users, jdr_id \in JdrIdInputs :
        LET out == get_board(user, jdr_id)
        IN  CommitJdr("get_board", out,
                      [user |-> user, jdr_id |-> jdr_id,
                       elements |-> IF out.status = OK
                                    THEN {el.id : el \in out.body} ELSE {}])

UpdateBoard ==
    \E user \in Users, jdr_id \in JdrIdInputs, data \in BoardUpdateInputs :
        CommitJdr("update_board", update_board(user, jdr_id, data), [user |-> user])

AddElement ==
    \E user \in Users, jdr_id \in JdrIdInputs, data \in BoardElementCreateInputs :
        LET out == add_board_element(user, jdr_id, BoardElementCreate(data))
        IN  /\ out.status = OK => seq.board_elements <= MaxElements
            /\ CommitJdr("add_element", out, [user |-> user])

UpdateElement ==
    \E user \in Users, jdr_id \in JdrIdInputs, element_id \in ElementIdInputs,
       data \in BoardElementUpdateInputs :
        CommitJdr("update_element",
                  update_board_element(user, jdr_id, element_id, data),
                  [user |-> user])

DeleteElement ==
    \E user \in Users, jdr_id \in JdrIdInputs, element_id \in ElementIdInputs :
        CommitJdr("delete_element", delete_board_element(user, jdr_id, element_id),
                  [user |-> user])

\* One organization: the first user is its owner, every other user is an
\* active member of it or no member.
BoardScenarios ==
    {ms \in RankScenarios :
        \A m \in ms : /\ m.status = "active"
                      /\ m.role = IF m.user_id = 1 THEN "owner" ELSE "member"}

InitBoard ==
    /\ users = [u \in Users |->
                  [email |-> EmailOf[u],
                   hashed_password |-> hash_password(PasswordOf[u]),
                   global_role |-> IF u = 1 THEN "admin" ELSE "user",
                   is_active |-> TRUE]]
    /\ organizations = {[id |-> 1, slug |-> "guild", join_mode |-> "approval",
                         is_active |-> TRUE]}
    /\ memberships \in BoardScenarios
    /\ refresh_tokens = {}
    /\ renewals = <<>>
    /\ workers = [w \in Workers |-> Idle]
    /\ jdrs = {}
    /\ jdr_memberships = {}
    /\ boards = {}
    /\ board_elements = {}
    /\ NoInventory
    /\ seq = [FirstIds EXCEPT !.organizations = 2, !.memberships = NumUsers + 1]
    /\ now = 1
    /\ last = Response("startup", OK, NoArgs)

NextBoard ==
    \/ CreateJdr
    \/ UpdateJdr
    \/ JoinJdr
    \/ ApprovePlayer
    \/ GetBoard
    \/ UpdateBoard
    \/ AddElement
    \/ UpdateElement
    \/ DeleteElement

SpecBoard == InitBoard /\ [][NextBoard]_vars

\* ------------------------------------- approvals across two organizations
\* Two organizations in approval mode, each created by one of the first two
\* users. Each of the two has, in the other's organization, asked to join or
\* not, and a request made may have been approved by the owner already.
CrossRequests == {"none", "pending", "approved"}

ApproveOrgIds == 1..(MaxOrgs + 1)
ApproveMembershipIds == 1..(2 * MaxMemberships + 1)

ApproveScenario(first, second) ==
    LET request(id, user, organization_id, owner, state) ==
            IF state = "none" THEN {}
            ELSE {[id |-> id, user_id |-> user, organization_id |-> organization_id,
                   role |-> "member",
                   status |-> IF state = "pending" THEN "pending" ELSE "active",
                   approved_by_id |-> IF state = "pending" THEN NoId ELSE owner,
                   approved_at |-> IF state = "pending" THEN NoId ELSE 1]}
    IN  {[id |-> 1, user_id |-> 1, organization_id |-> 1, role |-> "owner",
          status |-> "active", approved_by_id |-> NoId, approved_at |-> NoId],
         [id |-> 2, user_id |-> 2, organization_id |-> 2, role |-> "owner",
          status |-> "active", approved_by_id |-> NoId, approved_at |-> NoId]}
          \cup request(3, 2, 1, 1, first)
          \cup request(4, 1, 2, 2, second)

ApproveAcross ==
    \E user \in Users, organization_id \in ApproveOrgIds,
       membership_id \in ApproveMembershipIds :
        LET out == approve_member(user, organization_id, membership_id)
        IN  /\ organizations' = out.organizations
            /\ memberships' = out.memberships
            /\ last' = Response("approve_member", out.status,
                                [user |-> user, organization_id |-> organization_id,
                                 membership_id |-> membership_id])
            /\ UNCHANGED <<users, authVars, jdrVars, seq, now>>

InitApprove ==
    /\ users = [u \in Users |->
                  [email |-> EmailOf[u],
                   hashed_password |-> hash_password(PasswordOf[u]),
                   global_role |-> IF u = 1 THEN "admin" ELSE "user",
                   is_active |-> TRUE]]
    /\ organizations = {[id |-> 1, slug |-> "guild", join_mode |-> "approval",
                         is_active |-> TRUE],
                        [id |-> 2, slug |-> "tavern", join_mode |-> "approval",
                         is_active |-> TRUE]}
    /\ \E first \in CrossRequests, second \in CrossRequests :
          memberships = ApproveScenario(first, second)
    /\ refresh_tokens = {}
    /\ renewals = <<>>
    /\ workers = [w \in Workers |-> Idle]
    /\ jdrs = {}
    /\ jdr_memberships = {}
    /\ boards = {}
    /\ board_elements = {}
    /\ NoInventory
    /\ seq = [FirstIds EXCEPT !.organizations = 3, !.memberships = 5]
    /\ now \in 1..2
    /\ last = Response("startup", OK, NoArgs)

NextApprove == ApproveAcross

SpecApprove == InitApprove /\ [][NextApprove]_vars

\* ------------------------------------------------- joining a session
\* The session routes without the board, with every lifecycle status set by
\* the MJ and room for a second request to join.
JDRStatusUpdates == {[status |-> s] : s \in JDRStatus}
MaxSessionMemberships == MaxJdrMemberships + 1
SessionMembershipIds == 1..(MaxSessionMemberships + 1)

UpdateJdrStatus ==
    \E user \in Users, jdr_id \in JdrIdInputs, data \in JDRStatusUpdates :
        CommitJdr("update_jdr", update_jdr(user, jdr_id, data), NoArgs)

JoinSession ==
    \E user \in Users, jdr_id \in JdrIdInputs :
        LET out == join_jdr(user, jdr_id)
        IN  /\ out.status = OK => seq.jdr_memberships <= MaxSessionMemberships
            /\ CommitJdr("join_jdr", out, [user |-> user])

ApproveSessionPlayer ==
    \E user \in Users, jdr_id \in JdrIdInputs, membership_id \in SessionMembershipIds :
        CommitJdr("approve_player", approve_player(user, jdr_id, membership_id),
                  [user |-> user])

InitSession == InitBoard

NextSession ==
    \/ CreateJdr
    \/ UpdateJdrStatus
    \/ JoinSession
    \/ ApproveSessionPlayer

SpecSession == InitSession /\ [][NextSession]_vars

\* ------------------------------------------- logins with disabled accounts
\* users.is_active is read by the login and set by no route: an account is
\* disabled in the database. Any registered account but the seeded
\* administrator's may have been.
InitLogin ==
    /\ \E disabled \in SUBSET (Users \ {1}) :
          users = [u \in Users |->
                     [email |-> EmailOf[u],
                      hashed_password |-> hash_password(PasswordOf[u]),
                      global_role |-> IF u = 1 THEN "admin" ELSE "user",
                      is_active |-> u \notin disabled]]
    /\ organizations = {}
    /\ memberships = {}
    /\ refresh_tokens = {}
    /\ renewals = <<>>
    /\ workers = [w \in Workers |-> Idle]
    /\ jdrs = {}
    /\ jdr_memberships = {}
    /\ boards = {}
    /\ board_elements = {}
    /\ NoInventory
    /\ seq = FirstIds
    /\ now = 1
    /\ last = Response("startup", OK, NoArgs)

NextLogin ==
    \/ Login
    \/ Logout
    \/ Tick

SpecLogin == InitLogin /\ [][NextLogin]_vars

\* ------------------------------------------------- models/jdr.py: images
\* An ImageAsset is its url; a relationship that is not set has no
\* row (None); a url that does not resolve is NULL (None).
ImageAssets(url) == {NoRow, [url |-> url]}

ItemTemplates == {NoRow} \cup {[image |-> i] : i \in ImageAssets("/uploads/items/template.png")}
GameItems == {NoRow} \cup {[custom_image |-> c, template |-> t] :
                             c \in ImageAssets("/uploads/items/custom.png"),
                             t \in ItemTemplates}
Characters == {NoRow} \cup {[avatar_image |-> a] : a \in ImageAssets("/uploads/characters/c.png")}
ImageElements == {[id |-> 1, image |-> i, character |-> c, game_item |-> g] :
                     i \in ImageAssets("/uploads/elements/e.png"),
                     c \in Characters, g \in GameItems}

\* The template's image preferred to the item's own.
GameItem_image_url_TemplateFirst(game_item) ==
    IF game_item.template # NoRow /\ game_item.template.image # NoRow
    THEN game_item.template.image.url
    ELSE IF game_item.custom_image # NoRow THEN game_item.custom_image.url
    ELSE NULL

GameItem_image_url(game_item) ==
    IF game_item.custom_image # NoRow THEN game_item.custom_image.url
    ELSE IF game_item.template # NoRow /\ game_item.template.image # NoRow
    THEN game_item.template.image.url
    ELSE NULL

BoardElement_image_url(element) ==
    IF element.image # NoRow THEN element.image.url
    ELSE IF element.character # NoRow /\ element.character.avatar_image # NoRow
    THEN element.character.avatar_image.url
    ELSE IF element.game_item # NoRow /\ GameItem_image_url(element.game_item) # NULL
    THEN GameItem_image_url(element.game_item)
    ELSE NULL

ResolveElementImage ==
    \E element \in board_elements :
        /\ last' = Response("element_image_url", OK,
                            [url |-> BoardElement_image_url(element)])
        /\ UNCHANGED <<users, orgVars, authVars, jdrVars, seq, now>>

ResolveItemImage ==
    \E element \in board_elements :
        /\ element.game_item # NoRow
        /\ last' = Response("item_image_url", OK,
                            [url |-> GameItem_image_url(element.game_item)])
        /\ UNCHANGED <<users, orgVars, authVars, jdrVars, seq, now>>

InitImage ==
    /\ users = [u \in Users |->
                  [email |-> EmailOf[u],
                   hashed_password |-> hash_password(PasswordOf[u]),
                   global_role |-> IF u = 1 THEN "admin" ELSE "user",
                   is_active |-> TRUE]]
    /\ organizations = {}
    /\ memberships = {}
    /\ refresh_tokens = {}
    /\ renewals = <<>>
    /\ workers = [w \in Workers |-> Idle]
    /\ jdrs = {}
    /\ jdr_memberships = {}
    /\ boards = {}
    /\ \E element \in ImageElements : board_elements = {element}
    /\ NoInventory
    /\ seq = FirstIds
    /\ now = 1
    /\ last = Response("startup", OK, NoArgs)

NextImage ==
    \/ ResolveElementImage
    \/ ResolveItemImage

SpecImage == InitImage /\ [][NextImage]_vars

\* ------------------------------------------- successive partial updates
\* A session of user 1 with its board and one element on it, as create_jdr
\* and add_board_element leave them, and the MJ's partial updates of the
\* board's dimensions and of the element's position and content. Each
\* response is recorded with the request's maps and the maps it found.
DimensionPatches ==
    {[width |-> 800], [grid_size |-> 25], [width |-> 1024, show_grid |-> FALSE]}
ElementPatches ==
    {[position |-> p] : p \in {[x |-> 5], [y |-> 7, x |-> 9], [flip |-> TRUE]}}
      \cup {[content |-> c] : c \in {[text |-> "b"], [color |-> "red"]}}
      \cup {[position |-> [x |-> 5], content |-> [color |-> "red"]]}

PatchBoard ==
    \E dimensions \in DimensionPatches :
        LET board == First({b \in boards : b.jdr_id = 1})
        IN  CommitJdr("update_board", update_board(1, 1, [dimensions |-> dimensions]),
                      [before |-> board.dimensions, patch |-> dimensions])

PatchElement ==
    \E data \in ElementPatches :
        LET element == First({el \in board_elements : el.id = 1})
        IN  CommitJdr("update_board_element", update_board_element(1, 1, 1, data),
                      [before |-> element, patch |-> data])

InitMerge ==
    /\ users = [u \in Users |->
                  [email |-> EmailOf[u],
                   hashed_password |-> hash_password(PasswordOf[u]),
                   global_role |-> IF u = 1 THEN "admin" ELSE "user",
                   is_active |-> TRUE]]
    /\ organizations = {[id |-> 1, slug |-> "guild", join_mode |-> "approval",
                         is_active |-> TRUE]}
    /\ memberships = {[id |-> 1, user_id |-> 1, organization_id |-> 1,
                       role |-> "owner", status |-> "active",
                       approved_by_id |-> NoId, approved_at |-> NoId]}
    /\ refresh_tokens = {}
    /\ renewals = <<>>
    /\ workers = [w \in Workers |-> Idle]
    /\ jdrs = {[id |-> 1, organization_id |-> 1, mj_id |-> 1, max_players |-> 1,
                status |-> "draft"]}
    /\ jdr_memberships = {}
    /\ boards = {[id |-> 1, jdr_id |-> 1, dimensions |-> DefaultDimensions]}
    /\ board_elements =
          {[id |-> 1, board_id |-> 1, element_type |-> "note",
            character_id |-> NoId, game_item_id |-> NoId, image_id |-> NoId,
            content |-> [text |-> "a"], position |-> validate_position([x |-> 3]),
            is_visible |-> TRUE, visible_to |-> EmptyDict]}
    /\ NoInventory
    /\ seq = [FirstIds EXCEPT !.organizations = 2, !.memberships = 2, !.jdrs = 2,
                              !.boards = 2, !.board_elements = 2]
    /\ now = 1
    /\ last = Response("startup", OK, NoArgs)

NextMerge ==
    \/ PatchBoard
    \/ PatchElement

SpecMerge == InitMerge /\ [][NextMerge]_vars

\* ------------------------------------- services/jdr_service.py: inventory
\* The quantities a request gives (GiveItemRequest.quantity, ge = 1).
QuantityInputs == {2, 3}

\* A gift that never stacks: every call adds a row.
give_item_to_character_NoStack(mj, jdr_id, data) ==
    LET character == First({c \in characters :
                              c.id = data.character_id /\ c.jdr_id = jdr_id})
        game_item == First({g \in game_items :
                              g.id = data.game_item_id /\ g.jdr_id = jdr_id})
    IN  IF _check_is_mj(mj, jdr_id) # OK
        THEN [status |-> _check_is_mj(mj, jdr_id),
              character_inventory |-> character_inventory]
        ELSE IF character = NoRow \/ game_item = NoRow
        THEN [status |-> NOT_FOUND, character_inventory |-> character_inventory]
        ELSE [status |-> OK,
              character_inventory |-> character_inventory \cup
                  {[id |-> Cardinality(character_inventory) + 1,
                    character_id |-> data.character_id,
                    game_item_id |-> data.game_item_id,
                    quantity |-> data.quantity]}]

\* give_item_to_character: the MJ check, the character of this session, the
\* item of this session, then the existing row of the pair gains the quantity
\* or a new row is inserted (mj_notes is free text and is left out).
give_item_to_character(mj, jdr_id, data) ==
    LET character == First({c \in characters :
                              c.id = data.character_id /\ c.jdr_id = jdr_id})
        game_item == First({g \in game_items :
                              g.id = data.game_item_id /\ g.jdr_id = jdr_id})
        existing == First({i \in character_inventory :
                             /\ i.character_id = data.character_id
                             /\ i.game_item_id = data.game_item_id})
    IN  IF _check_is_mj(mj, jdr_id) # OK
        THEN [status |-> _check_is_mj(mj, jdr_id),
              character_inventory |-> character_inventory]
        ELSE IF character = NoRow
        THEN [status |-> NOT_FOUND, character_inventory |-> character_inventory]
        ELSE IF game_item = NoRow
        THEN [status |-> NOT_FOUND, character_inventory |-> character_inventory]
        ELSE IF existing # NoRow
        THEN [status |-> OK,
              character_inventory |->
                  (character_inventory \ {existing}) \cup
                  {[existing EXCEPT !.quantity = @ + data.quantity]}]
        ELSE [status |-> OK,
              character_inventory |-> character_inventory \cup
                  {[id |-> Cardinality(character_inventory) + 1,
                    character_id |-> data.character_id,
                    game_item_id |-> data.game_item_id,
                    quantity |-> data.quantity]}]

\* POST /jdr/{jdr_id}/inventory/give
GiveItem ==
    \E mj \in Users, jdr_id \in InventoryIdInputs,
       character_id \in InventoryIdInputs, game_item_id \in InventoryIdInputs,
       quantity \in QuantityInputs :
        LET data == [character_id |-> character_id,
                     game_item_id |-> game_item_id, quantity |-> quantity]
            out == give_item_to_character(mj, jdr_id, data)
            pair == <<character_id, game_item_id>>
        IN  /\ out.status = OK => given[pair] + quantity <= MaxGiven
            /\ character_inventory' = out.character_inventory
            /\ given' = IF out.status = OK
                        THEN [given EXCEPT ![pair] = @ + quantity]
                        ELSE given
            /\ last' = Response("give_item", out.status,
                                IF _check_is_mj(mj, jdr_id) = OK
                                THEN [mj |-> mj, jdr_id |-> jdr_id, data |-> data]
                                ELSE NoArgs)
            /\ UNCHANGED <<users, orgVars, authVars, jdrs, jdr_memberships,
                           boards, board_elements, characters, game_items,
                           seq, now>>

\* Two sessions of one organization, each with its MJ, one player, that
\* player's character and one item.
InitInventory ==
    /\ users = [u \in Users |->
                  [email |-> EmailOf[u],
                   hashed_password |-> hash_password(PasswordOf[u]),
                   global_role |-> IF u = 1 THEN "admin" ELSE "user",
                   is_active |-> TRUE]]
    /\ organizations = {[id |-> 1, slug |-> "guild", join_mode |-> "open",
                         is_active |-> TRUE]}
    /\ memberships = {[id |-> u, user_id |-> u, organization_id |-> 1,
                       role |-> IF u = 1 THEN "owner" ELSE "member",
                       status |-> "active",
                       approved_by_id |-> NoId, approved_at |-> NoId] :
                      u \in Users}
    /\ refresh_tokens = {}
    /\ renewals = <<>>
    /\ workers = [w \in Workers |-> Idle]
    /\ jdrs = {[id |-> j, organization_id |-> 1, mj_id |-> j, max_players |-> 1,
                status |-> "open"] : j \in {1, NumUsers}}
    /\ jdr_memberships =
          {[id |-> j, jdr_id |-> j, user_id |-> (NumUsers + 1) - j,
            status |-> "active", approved_by_id |-> j, approved_at |-> 1] :
           j \in {1, NumUsers}}
    /\ boards = {[id |-> j, jdr_id |-> j, dimensions |-> DefaultDimensions] :
                 j \in {1, NumUsers}}
    /\ board_elements = {}
    /\ characters = {[id |-> j, jdr_id |-> j, owner_id |-> (NumUsers + 1) - j,
                       gold |-> 0] :
                     j \in {1, NumUsers}}
    /\ game_items = {[id |-> j, jdr_id |-> j] : j \in {1, NumUsers}}
    /\ character_inventory = {}
    /\ given = [pair \in InventoryPairs |-> 0]
    /\ seq = [FirstIds EXCEPT !.organizations = 2,
                              !.memberships = NumUsers + 1,
                              !.jdrs = NumUsers + 1,
                              !.jdr_memberships = NumUsers + 1,
                              !.boards = NumUsers + 1]
    /\ now = 1
    /\ last = Response("startup", OK, NoArgs)

NextInventory == GiveItem

SpecInventory == InitInventory /\ [][NextInventory]_vars

\* ------------------------------------------------------ refused requests
\* The databases the refusals are tried on: one organization owned by the
\* first user; the second user disabled or not, with no membership, a pending
\* one or an active one as member or admin; a refresh token of the second user
\* that is live, revoked or expired, or none; one session of the first user,
\* draft or open, which the second user has asked to join or plays in, with a
\* character then; the board with or without an element; one item.  A
\* scenario varies the accounts and tokens, or the organization, or the
\* session, and keeps the rest as usual.
ErrorScenarios ==
    LET usual == [disabled |-> FALSE, join_mode |-> "open", member |-> "member",
                  token |-> "none", jdr_status |-> "open", player |-> "none",
                  element |-> FALSE]
        Same(sc, fields) == \A f \in fields : sc[f] = usual[f]
    IN  {sc \in [disabled : BOOLEAN,
                 join_mode : OrganizationJoinMode,
                 member : {"none", "pending", "member", "admin"},
                 token : {"none", "live", "revoked", "expired"},
                 jdr_status : {"draft", "open"},
                 player : {"none", "pending", "active"},
                 element : BOOLEAN] :
           \/ Same(sc, {"join_mode", "member", "jdr_status", "player", "element"})
           \/ Same(sc, {"disabled", "token", "jdr_status", "player", "element"})
           \/ Same(sc, {"disabled", "token", "join_mode", "member"})}

InitErrors ==
    \E sc \in ErrorScenarios :
        /\ sc.player # "none" => sc.member \in {"member", "admin"}
        /\ users = [u \in Users |->
                      [email |-> EmailOf[u],
                       hashed_password |-> hash_password(PasswordOf[u]),
                       global_role |-> IF u = 1 THEN "admin" ELSE "user",
                       is_active |-> ~(u = NumUsers /\ sc.disabled)]]
        /\ organizations = {[id |-> 1, slug |-> "guild",
                             join_mode |-> sc.join_mode, is_active |-> TRUE]}
        /\ memberships =
              {[id |-> 1, user_id |-> 1, organization_id |-> 1,
                role |-> "owner", status |-> "active",
                approved_by_id |-> NoId, approved_at |-> NoId]}
              \cup
              IF sc.member = "none" THEN {}
              ELSE {[id |-> 2, user_id |-> NumUsers, organization_id |-> 1,
                     role |-> IF sc.member = "admin" THEN "admin" ELSE "member",
                     status |-> IF sc.member = "pending" THEN "pending"
                                ELSE "active",
                     approved_by_id |-> NoId, approved_at |-> NoId]}
        /\ now = MaxNow
        /\ refresh_tokens =
              IF sc.token = "none" THEN {}
              ELSE {[id |-> 1, token |-> 1, user_id |-> NumUsers,
                     expires_at |-> IF sc.token = "expired" THEN MaxNow - 1
                                    ELSE MaxNow + REFRESH_TOKEN_EXPIRE_DAYS - 1,
                     revoked |-> sc.token = "revoked",
                     revoked_at |-> IF sc.token = "revoked" THEN MaxNow
                                    ELSE NoId]}
        /\ renewals = <<>>
        /\ workers = [w \in Workers |-> Idle]
        /\ jdrs = {[id |-> 1, organization_id |-> 1, mj_id |-> 1,
                    max_players |-> 1, status |-> sc.jdr_status]}
        /\ jdr_memberships =
              IF sc.player = "none" THEN {}
              ELSE {[id |-> 1, jdr_id |-> 1, user_id |-> NumUsers,
                     status |-> sc.player,
                     approved_by_id |-> IF sc.player = "active" THEN 1 ELSE NoId,
                     approved_at |-> IF sc.player = "active" THEN 1 ELSE NoId]}
        /\ boards = {[id |-> 1, jdr_id |-> 1, dimensions |-> DefaultDimensions]}
        /\ board_elements =
              IF sc.element
              THEN {[id |-> 1, board_id |-> 1, element_type |-> "note",
                     character_id |-> NoId, game_item_id |-> NoId,
                     image_id |-> NoId, content |-> [text |-> "a"],
                     position |-> validate_position([x |-> 3]),
                     is_visible |-> TRUE, visible_to |-> EmptyDict]}
              ELSE {}
        /\ characters =
              IF sc.player = "active"
              THEN {[id |-> 1, jdr_id |-> 1, owner_id |-> NumUsers]}
              ELSE {}
        /\ game_items = {[id |-> 1, jdr_id |-> 1]}
        /\ character_inventory = {}
        /\ given = [pair \in InventoryPairs |-> 0]
        /\ seq = [FirstIds EXCEPT
                     !.organizations = 2,
                     !.memberships = IF sc.member = "none" THEN 2 ELSE 3,
                     !.refresh_tokens = IF sc.token = "none" THEN 1 ELSE 2,
                     !.jdrs = 2,
                     !.jdr_memberships = IF sc.player = "none" THEN 1 ELSE 2,
                     !.boards = 2,
                     !.board_elements = IF sc.element THEN 2 ELSE 1]
        /\ last = Response("startup", OK, NoArgs)

\* The request is answered with an error.
Refused(request) == request /\ last'.status # OK

NextErrors ==
    \/ Refused(Register)
    \/ Refused(Promote)
    \/ Refused(Login)
    \/ Refused(Refresh)
    \/ Refused(Logout)
    \/ Refused(LogoutAll)
    \/ Refused(CreateOrg)
    \/ Refused(JoinOrg)
    \/ Refused(ChangeMemberRole)
    \/ Refused(ApproveMember)
    \/ Refused(UpdateOrg)
    \/ Refused(GetOrg)
    \/ Refused(DeleteOrg)
    \/ Refused(CreateJdr)
    \/ Refused(UpdateJdr)
    \/ Refused(JoinJdr)
    \/ Refused(ApprovePlayer)
    \/ Refused(GetBoard)
    \/ Refused(UpdateBoard)
    \/ Refused(AddElement)
    \/ Refused(UpdateElement)
    \/ Refused(DeleteElement)
    \/ Refused(GiveItem)

SpecErrors == InitErrors /\ [][NextErrors]_vars

\* ------------------------------------------------- slugs of organizations
\* Organizations are created and renamed, one more than elsewhere, with one
\* slug more than there are organizations.
SlugInputs == Slugs \cup {"forge"}
SlugOrgIds == 1..(MaxOrgs + 2)

CreateOrgWithSlug ==
    \E user \in Users, slug \in SlugInputs :
        LET out == create_organization(user, slug, "open")
        IN  /\ out.status = OK => seq.organizations <= MaxOrgs + 1
            /\ Commit("create_org", out, [slug |-> slug])

UpdateOrgSlug ==
    \E user \in Users, organization_id \in SlugOrgIds, slug \in SlugInputs :
        Commit("update_org",
               update_org(user, organization_id, [f \in {"slug"} |-> slug]),
               [organization_id |-> organization_id, slug |-> slug])

NextSlug ==
    \/ CreateOrgWithSlug
    \/ UpdateOrgSlug

SpecSlug == Init /\ [][NextSlug]_vars

\* --------------------------------------- the visibility filter as a function
\* The descriptors: all absent, true or false; player_ids and character_ids
\* absent, empty, or naming the first or the second id; and None.
IdLists == {<<>>, <<1>>, <<NumUsers>>}

VisibleDescriptors ==
    {Merge(Merge(IF a = {} THEN EmptyDict ELSE [all |-> CHOOSE v \in a : TRUE],
                 IF p = {} THEN EmptyDict
                 ELSE [player_ids |-> CHOOSE v \in p : TRUE]),
           IF c = {} THEN EmptyDict
           ELSE [character_ids |-> CHOOSE v \in c : TRUE]) :
        a \in {{}, {TRUE}, {FALSE}},
        p \in {{}} \cup {{l} : l \in IdLists},
        c \in {{}} \cup {{l} : l \in IdLists}}
      \cup {NoneDict}

CheckVisible ==
    \E element \in board_elements, user \in Users :
        /\ last' = Response("is_visible_to_user", OK,
                            [user |-> user,
                             visible |-> _is_visible_to_user(element, user)])
        /\ UNCHANGED <<users, orgVars, authVars, jdrVars, seq, now>>

\* One session of the first user in which every user plays a character (the
\* MJ has joined it too), and one element on its board: linked to no
\* character, to the first or to the last one, under any descriptor.
InitVisible ==
    /\ users = [u \in Users |->
                  [email |-> EmailOf[u],
                   hashed_password |-> hash_password(PasswordOf[u]),
                   global_role |-> IF u = 1 THEN "admin" ELSE "user",
                   is_active |-> TRUE]]
    /\ organizations = {[id |-> 1, slug |-> "guild", join_mode |-> "open",
                         is_active |-> TRUE]}
    /\ memberships = {[id |-> u, user_id |-> u, organization_id |-> 1,
                       role |-> IF u = 1 THEN "owner" ELSE "member",
                       status |-> "active",
                       approved_by_id |-> NoId, approved_at |-> NoId] :
                      u \in Users}
    /\ refresh_tokens = {}
    /\ renewals = <<>>
    /\ workers = [w \in Workers |-> Idle]
    /\ jdrs = {[id |-> 1, organization_id |-> 1, mj_id |-> 1,
                max_players |-> NumUsers, status |-> "open"]}
    /\ jdr_memberships =
          {[id |-> u, jdr_id |-> 1, user_id |-> u, status |-> "active",
            approved_by_id |-> 1, approved_at |-> 1] : u \in Users}
    /\ boards = {[id |-> 1, jdr_id |-> 1, dimensions |-> DefaultDimensions]}
    /\ characters = {[id |-> u, jdr_id |-> 1, owner_id |-> (NumUsers + 1) - u] :
                     u \in Users}
    /\ \E character_id \in {NoId, 1, NumUsers}, visible_to \in VisibleDescriptors :
          board_elements =
              {[id |-> 1, board_id |-> 1, element_type |-> "token",
                character_id |-> character_id, game_item_id |-> NoId,
                image_id |-> NoId, content |-> EmptyDict,
                position |-> validate_position(EmptyDict),
                is_visible |-> TRUE, visible_to |-> visible_to]}
    /\ game_items = {}
    /\ character_inventory = {}
    /\ given = [pair \in InventoryPairs |-> 0]
    /\ seq = [FirstIds EXCEPT !.organizations = 2,
                              !.memberships = NumUsers + 1,
                              !.jdrs = 2,
                              !.jdr_memberships = NumUsers + 1,
                              !.boards = 2,
                              !.board_elements = 2]
    /\ now = 1
    /\ last = Response("startup", OK, NoArgs)

NextVisible == CheckVisible

SpecVisible == InitVisible /\ [][NextVisible]_vars

\* ------------------------------------------- elements of two boards
\* The bodies of POST .../board/elements: without position, with an empty
\* one, with one that overrides a default and adds a key; or with a
\* character, an item, or both, of the first or of the last session.
ElementBodies ==
    {[element_type |-> "token"],
     [element_type |-> "token", position |-> EmptyDict],
     [element_type |-> "token", position |-> [x |-> 5, flip |-> TRUE]]}
      \cup {[element_type |-> "token", character_id |-> c] : c \in {1, NumUsers}}
      \cup {[element_type |-> "token", game_item_id |-> g] : g \in {1, NumUsers}}
      \cup {[element_type |-> "token", character_id |-> 1,
             game_item_id |-> NumUsers]}
MaxBoardElements == MaxElements + 1
BoardElementIds == 1..(MaxBoardElements + 1)

\* The response keeps the arguments of the requests of a session's MJ.
MjArgs(user, jdr_id, args) ==
    IF _check_is_mj(user, jdr_id) = OK THEN args ELSE NoArgs

AddElementTo ==
    \E user \in Users, jdr_id \in InventoryIdInputs, body \in ElementBodies :
        LET out == add_board_element(user, jdr_id, BoardElementCreate(body))
        IN  /\ out.status = OK => seq.board_elements <= MaxBoardElements
            /\ CommitJdr("add_element", out,
                         MjArgs(user, jdr_id,
                                [user |-> user, jdr_id |-> jdr_id, body |-> body]))

MoveElementOf ==
    \E user \in Users, jdr_id \in InventoryIdInputs,
       element_id \in BoardElementIds :
        CommitJdr("update_element",
                  update_board_element(user, jdr_id, element_id,
                                       [position |-> [y |-> 7]]),
                  MjArgs(user, jdr_id, [user |-> user, jdr_id |-> jdr_id,
                                        element_id |-> element_id]))

DeleteElementOf ==
    \E user \in Users, jdr_id \in InventoryIdInputs,
       element_id \in BoardElementIds :
        CommitJdr("delete_element",
                  delete_board_element(user, jdr_id, element_id),
                  MjArgs(user, jdr_id, [user |-> user, jdr_id |-> jdr_id,
                                        element_id |-> element_id]))

NextElements ==
    \/ AddElementTo
    \/ MoveElementOf
    \/ DeleteElementOf

SpecElements == InitInventory /\ [][NextElements]_vars

\* ------------------------------------------- concurrent requests to join
\* One join_jdr request per worker, each in its own database session and
\* transaction.  The reads of lines 146-172 see the rows committed when they
\* run; the INSERT is flushed and committed by db.commit() at line 178.  The
\* table has no unique constraint on (jdr_id, user_id).
MaxRacedMemberships == MaxSessionMemberships + 1

\* Lines 146-172: the session, its status, the organization membership, the
\* existing membership and the count of active players, as join_jdr reads them.
JoinCheck(w) ==
    \E user \in Users, jdr_id \in InventoryIdInputs :
        LET out == join_jdr(user, jdr_id)
        IN  /\ workers[w] = Idle
            /\ out.status = OK => seq.jdr_memberships <= MaxRacedMemberships
            /\ IF out.status # OK
               THEN /\ last' = Response("join_jdr", out.status, NoArgs)
                    /\ UNCHANGED workers
               ELSE /\ workers' = [workers EXCEPT ![w] =
                                      [pc |-> "checked", user |-> user,
                                       jdr_id |-> jdr_id]]
                    /\ UNCHANGED last
            /\ UNCHANGED <<users, orgVars, refresh_tokens, renewals, jdrVars,
                           seq, now>>

\* A commit that runs the checks again and refuses what they now refuse.
JoinCommit_CheckAgain(w) ==
    /\ workers[w].pc = "checked"
    /\ LET out == join_jdr(workers[w].user, workers[w].jdr_id)
       IN  /\ jdr_memberships' = out.jdr_memberships
           /\ seq' = [seq EXCEPT !.jdr_memberships =
                         IF out.status = OK THEN @ + 1 ELSE @]
           /\ last' = Response("join_jdr", out.status,
                               [user |-> workers[w].user,
                                jdr_id |-> workers[w].jdr_id])
    /\ workers' = [workers EXCEPT ![w] = Idle]
    /\ UNCHANGED <<users, orgVars, refresh_tokens, renewals, jdrs, boards,
                   board_elements, itemVars, now>>

\* Lines 174-180: the INSERT of the pending membership and the commit.
JoinCommit(w) ==
    /\ workers[w].pc = "checked"
    /\ jdr_memberships' = jdr_memberships \cup
          {[id |-> seq.jdr_memberships, jdr_id |-> workers[w].jdr_id,
            user_id |-> workers[w].user, status |-> "pending",
            approved_by_id |-> NoId, approved_at |-> NoId]}
    /\ seq' = [seq EXCEPT !.jdr_memberships = @ + 1]
    /\ last' = Response("join_jdr", OK,
                        [user |-> workers[w].user, jdr_id |-> workers[w].jdr_id])
    /\ workers' = [workers EXCEPT ![w] = Idle]
    /\ UNCHANGED <<users, orgVars, refresh_tokens, renewals, jdrs, boards,
                   board_elements, itemVars, now>>

\* Two open sessions of one organization with one place each and no player
\* yet; every user is an active member of the organization.
InitJoinRace ==
    /\ users = [u \in Users |->
                  [email |-> EmailOf[u],
                   hashed_password |-> hash_password(PasswordOf[u]),
                   global_role |-> IF u = 1 THEN "admin" ELSE "user",
                   is_active |-> TRUE]]
    /\ organizations = {[id |-> 1, slug |-> "guild", join_mode |-> "open",
                         is_active |-> TRUE]}
    /\ memberships = {[id |-> u, user_id |-> u, organization_id |-> 1,
                       role |-> IF u = 1 THEN "owner" ELSE "member",
                       status |-> "active",
                       approved_by_id |-> NoId, approved_at |-> NoId] :
                      u \in Users}
    /\ refresh_tokens = {}
    /\ renewals = <<>>
    /\ workers = [w \in Workers |-> Idle]
    /\ jdrs = {[id |-> j, organization_id |-> 1, mj_id |-> 1, max_players |-> 1,
                status |-> "open"] : j \in {1, 2}}
    /\ jdr_memberships = {}
    /\ boards = {[id |-> j, jdr_id |-> j, dimensions |-> DefaultDimensions] :
                 j \in {1, 2}}
    /\ board_elements = {}
    /\ NoInventory
    /\ seq = [FirstIds EXCEPT !.organizations = 2,
                              !.memberships = NumUsers + 1,
                              !.jdrs = 3,
                              !.boards = 3]
    /\ now = 1
    /\ last = Response("startup", OK, NoArgs)

NextJoinRace ==
    \/ \E w \in Workers : JoinCheck(w)
    \/ \E w \in Workers : JoinCommit(w)

SpecJoinRace == InitJoinRace /\ [][NextJoinRace]_vars

\* ------------------------------------------- session updates, any body
\* schemas/jdr.py JDRUpdate: the body is parsed into the schema's fields and
\* a key the schema does not declare is dropped; update_jdr then sets the
\* fields that were supplied (model_dump(exclude_unset=True)).
JDRUpdateFields ==
    {"name", "description", "universe", "status", "max_players", "is_public",
     "settings"}

\* A schema that keeps the keys it does not declare.
JDRUpdate_KeepUnknown(body) == body

JDRUpdate(body) == [k \in DOMAIN body \cap JDRUpdateFields |-> body[k]]

JDRUpdateBodies ==
    JDRStatusUpdates
        \cup {[mj_id |-> u] : u \in Users}
        \cup {[max_players |-> 2, mj_id |-> u] : u \in Users}
        \cup {[status |-> "open", id |-> MaxJdrs + 1, mj_id |-> u] : u \in Users}

UpdateJdrBody ==
    \E user \in Users, jdr_id \in JdrIdInputs, body \in JDRUpdateBodies :
        CommitJdr("update_jdr", update_jdr(user, jdr_id, JDRUpdate(body)),
                  [user |-> user, jdr_id |-> jdr_id, body |-> body])

NextMj ==
    \/ CreateJdr
    \/ UpdateJdrBody
    \/ JoinSession
    \/ ApproveSessionPlayer

SpecMj == InitSession /\ [][NextMj]_vars

\* ------------------------------------------- reads of two boards
\* The MJ of each session adds elements that are shown or hidden, to all or
\* to some, edits and deletes them; the MJ and the players read the boards.
ReadBodies ==
    {Merge([element_type |-> "note"], Merge(v, vt)) :
        v \in {EmptyDict, [is_visible |-> FALSE]},
        vt \in {EmptyDict, [visible_to |-> [all |-> FALSE]],
                [visible_to |-> [player_ids |-> <<1>>]],
                [visible_to |-> [character_ids |-> <<1>>], character_id |-> 1]}}

ReadPatches ==
    {[content |-> [hp |-> 3]], [is_visible |-> FALSE],
     [visible_to |-> [all |-> TRUE]]}

AddElementShownOrHidden ==
    \E user \in Users, jdr_id \in InventoryIdInputs, body \in ReadBodies :
        LET out == add_board_element(user, jdr_id, BoardElementCreate(body))
        IN  /\ out.status = OK => seq.board_elements <= MaxBoardElements
            /\ CommitJdr("add_element", out, NoArgs)

EditElementOf ==
    \E user \in Users, jdr_id \in InventoryIdInputs,
       element_id \in BoardElementIds, data \in ReadPatches :
        CommitJdr("update_element",
                  update_board_element(user, jdr_id, element_id, data), NoArgs)

RemoveElementOf ==
    \E user \in Users, jdr_id \in InventoryIdInputs,
       element_id \in BoardElementIds :
        CommitJdr("delete_element",
                  delete_board_element(user, jdr_id, element_id), NoArgs)

ReadBoard ==
    \E user \in Users, jdr_id \in InventoryIdInputs :
        LET out == get_board(user, jdr_id)
        IN  CommitJdr("get_board", out,
                      IF out.status = OK
                      THEN [user |-> user, jdr_id |-> jdr_id,
                            elements |-> {el.id : el \in out.body}]
                      ELSE NoArgs)

NextRead ==
    \/ AddElementShownOrHidden
    \/ EditElementOf
    \/ RemoveElementOf
    \/ ReadBoard

SpecRead == InitInventory /\ [][NextRead]_vars

\* ------------------------------------------------------ characters' gold
\* Column gold is a float: the integers up to MaxGold on both sides, the two
\* infinities a sum past the largest finite value gives, and nan.
PosInf == MaxGold + 1
NegInf == 0 - PosInf
NaN == MaxGold + 2

\* a + b in floats.
float_add(a, b) ==
    IF a = NaN \/ b = NaN THEN NaN
    ELSE IF (a = PosInf /\ b = NegInf) \/ (a = NegInf /\ b = PosInf) THEN NaN
    ELSE IF a = PosInf \/ b = PosInf THEN PosInf
    ELSE IF a = NegInf \/ b = NegInf THEN NegInf
    ELSE IF a + b > MaxGold THEN PosInf
    ELSE IF a + b < 0 - MaxGold THEN NegInf
    ELSE a + b

\* a > b and a >= b in floats: false when either is nan.
float_gt(a, b) == a # NaN /\ b # NaN /\ a > b
float_ge(a, b) == a # NaN /\ b # NaN /\ a >= b

\* max(a, b) of Python: the first argument unless the second is greater.
max(a, b) == IF float_gt(b, a) THEN b ELSE a

\* The sum stored without the floor.
update_character_gold_NoFloor(mj, jdr_id, character_id, amount) ==
    LET checked == _check_is_mj(mj, jdr_id)
        character == First({c \in characters :
                              c.id = character_id /\ c.jdr_id = jdr_id})
    IN  IF checked # OK THEN [status |-> checked, characters |-> characters]
        ELSE IF character = NoRow
        THEN [status |-> NOT_FOUND, characters |-> characters]
        ELSE [status |-> OK,
              characters |-> (characters \ {character}) \cup
                  {[character EXCEPT !.gold = float_add(character.gold, amount)]}]

update_character_gold(mj, jdr_id, character_id, amount) ==
    LET checked == _check_is_mj(mj, jdr_id)
        character == First({c \in characters :
                              c.id = character_id /\ c.jdr_id = jdr_id})
    IN  IF checked # OK THEN [status |-> checked, characters |-> characters]
        ELSE IF character = NoRow
        THEN [status |-> NOT_FOUND, characters |-> characters]
        ELSE [status |-> OK,
              characters |-> (characters \ {character}) \cup
                  {[character EXCEPT
                       !.gold = max(0, float_add(character.gold, amount))]}]

\* schemas/jdr.py CharacterUpdate: gold, when supplied, is >= 0.
CharacterUpdate(data) == "gold" \in DOMAIN data => float_ge(data.gold, 0)

update_character(user, character_id, data, is_mj) ==
    LET character == First({c \in characters : c.id = character_id})
    IN  IF character = NoRow
        THEN [status |-> NOT_FOUND, characters |-> characters]
        ELSE IF ~is_mj /\ character.owner_id # user
        THEN [status |-> FORBIDDEN, characters |-> characters]
        ELSE IF is_mj /\ _check_is_mj(user, character.jdr_id) # OK
        THEN [status |-> _check_is_mj(user, character.jdr_id),
              characters |-> characters]
        ELSE [status |-> OK,
              characters |-> (characters \ {character}) \cup
                  {Merge(character, data)}]

AmountInputs == {0 - MaxGold, 0 - 1, 0, 1, MaxGold - 1, PosInf, NegInf, NaN}
GoldInputs == {0 - 1, 0, MaxGold - 1, PosInf, NaN}

\* PATCH .../characters/{character_id}/gold.  The response of a request of
\* the session's MJ keeps the amount and the gold the character had.
UpdateGold ==
    \E mj \in Users, jdr_id \in InventoryIdInputs,
       character_id \in InventoryIdInputs, amount \in AmountInputs :
        LET out == update_character_gold(mj, jdr_id, character_id, amount)
            character == First({c \in characters : c.id = character_id})
        IN  /\ characters' = out.characters
            /\ last' = Response("update_character_gold", out.status,
                                IF out.status = OK
                                THEN [character_id |-> character_id,
                                      amount |-> amount,
                                      was |-> character.gold]
                                ELSE NoArgs)
            /\ UNCHANGED <<users, orgVars, authVars, jdrs, jdr_memberships,
                           boards, board_elements, game_items,
                           character_inventory, given, seq, now>>

\* PATCH .../characters/{character_id} and .../characters/{character_id}/mj
\* with a body that supplies gold.
UpdateCharacter ==
    \E user \in Users, character_id \in InventoryIdInputs, gold \in GoldInputs,
       is_mj \in BOOLEAN :
        LET data == [gold |-> gold]
            out == IF CharacterUpdate(data)
                   THEN update_character(user, character_id, data, is_mj)
                   ELSE [status |-> UNPROCESSABLE, characters |-> characters]
        IN  /\ characters' = out.characters
            /\ last' = Response("update_character", out.status, NoArgs)
            /\ UNCHANGED <<users, orgVars, authVars, jdrs, jdr_memberships,
                           boards, board_elements, game_items,
                           character_inventory, given, seq, now>>

NextGold ==
    \/ UpdateGold
    \/ UpdateCharacter

SpecGold == InitInventory /\ [][NextGold]_vars

\* ------------------------------------------------------------------ claims

\* C1: changeRole with newRole = owner succeeds only when the requester holds
\* an active owner membership in that organization; a requester whose role is
\* admin, asking to make an existing non-owner member owner, is rejected with
\* Forbidden and the memberships are left as they were.
C1_OnlyOwnerPromotesToOwner ==
    \A requester \in Users, organization_id \in OrgIds, target \in Users :
        LET out == change_member_role(requester, organization_id, target, "owner")
            membership == First({m \in memberships :
                                   /\ m.user_id = target
                                   /\ m.organization_id = organization_id})
        IN  /\ out.status = OK =>
                  get_organization_role(requester, organization_id) = "owner"
            /\ ( /\ get_organization_role(requester, organization_id) = "admin"
                 /\ membership # NoRow
                 /\ membership.role # "owner" )
               => (out.status = FORBIDDEN /\ out.memberships = memberships)

\* C2: once a membership has role owner, it has role owner in every later
\* state in which it exists: no step changes an owner's role.
C2_OwnerRoleImmutable ==
    [][\A m \in memberships : \A n \in memberships' :
          (m.role = "owner" /\ n.id = m.id) => n.role = "owner"]_vars

\* C2 witness: a role change aimed at an owner has been asked for and refused,
\* and the owner is still there.
C2_Witness ==
    /\ last.op = "change_member_role"
    /\ last.status = BAD_REQUEST
    /\ \E m \in memberships : m.role = "owner"

\* C3: in every reachable state of the token store, renew(t) is rejected as
\* Unauthenticated, and changes nothing, for every stored refresh token t
\* that is marked revoked or whose expiry lies in the past.
C3_RevokedOrExpiredNeverRenewed ==
    \A t \in refresh_tokens :
        (t.revoked \/ t.expires_at < now) =>
            LET out == renew_token(refresh_tokens, seq.refresh_tokens, t.token)
            IN  /\ out.status = UNAUTHORIZED
                /\ out.refresh_tokens = refresh_tokens

\* A renewal was just refused for a stored token that is past expiry, not revoked.
C3_Witness ==
    /\ last.op = "refresh"
    /\ last.status = UNAUTHORIZED
    /\ \E t \in refresh_tokens :
          /\ t.token = last.args.refresh_token
          /\ ~t.revoked
          /\ t.expires_at < now

\* C4: right after a successful renew(t) that returned t', a second renew(t)
\* fails Unauthenticated, renew(t') succeeds, and a further renew(t') fails
\* Unauthenticated; no refresh token is ever accepted by renew twice.
C4_RotationSingleUse ==
    /\ (last.op = "refresh" /\ last.status = OK) =>
          LET t == last.args.refresh_token
              t_new == last.args.issued
              replay == renew_token(refresh_tokens, seq.refresh_tokens, t)
              second == renew_token(refresh_tokens, seq.refresh_tokens, t_new)
              third == renew_token(second.refresh_tokens, seq.refresh_tokens + 1, t_new)
          IN  /\ t_new # t
              /\ replay.status = UNAUTHORIZED
              /\ second.status = OK
              /\ third.status = UNAUTHORIZED
    /\ \A t \in DOMAIN renewals : renewals[t] <= 1

\* A renewal just succeeded: the presented token is stored revoked, the
\* token it returned is stored unrevoked.
C4_Witness ==
    /\ last.op = "refresh"
    /\ last.status = OK
    /\ renewals[last.args.refresh_token] = 1
    /\ \E t \in refresh_tokens : t.token = last.args.refresh_token /\ t.revoked
    /\ \E t \in refresh_tokens : t.token = last.args.issued /\ ~t.revoked

\* C5: when renew calls presenting the same valid refresh token interleave,
\* exactly one succeeds: no refresh token is accepted by more than one
\* renewal, so at most one new token is issued from it.
C5_OneRenewalPerToken ==
    \A t \in DOMAIN renewals : renewals[t] <= 1

\* C6: updateBoardConfig, addElement, updateElement and deleteElement called
\* on a session by any user other than its MJ (an active player of it, an
\* owner of its organization, a global admin) fail Forbidden and leave the
\* board and its elements unchanged.
C6_BoardMutationsByMjOnly ==
    \A jdr \in jdrs, user \in Users :
        user # jdr.mj_id =>
            LET refused(out) == /\ out.status = FORBIDDEN
                                /\ out.boards = boards
                                /\ out.board_elements = board_elements
            IN  /\ \A data \in BoardUpdateInputs :
                      refused(update_board(user, jdr.id, data))
                /\ \A data \in BoardElementCreateInputs :
                      refused(add_board_element(user, jdr.id,
                                                BoardElementCreate(data)))
                /\ \A element_id \in ElementIdInputs, data \in BoardElementUpdateInputs :
                      refused(update_board_element(user, jdr.id, element_id, data))
                /\ \A element_id \in ElementIdInputs :
                      refused(delete_board_element(user, jdr.id, element_id))

\* An update of an existing element was just refused to an active player of
\* the session who owns the organization and is a global admin.
C6_Witness ==
    /\ last.op = "update_element"
    /\ last.status = FORBIDDEN
    /\ board_elements # {}
    /\ users[last.args.user].global_role = "admin"
    /\ \E jdr \in jdrs :
          /\ jdr.mj_id # last.args.user
          /\ get_organization_role(last.args.user, jdr.organization_id) = "owner"
          /\ _check_is_player(last.args.user, jdr.id) = OK

\* C7: getBoard gives a player an element whose visible_to is
\* {player_ids: L} exactly when the element is visible and the player's id
\* is in L, gives no player an element with is_visible false, and gives the
\* session's MJ every element of the board.
C7_BoardFilter ==
    \A jdr \in jdrs, user \in Users :
        LET out == get_board(user, jdr.id)
            board == First({b \in boards : b.jdr_id = jdr.id})
            listed(el) == \E i \in DOMAIN el.visible_to.player_ids :
                              el.visible_to.player_ids[i] = user
        IN  out.status = OK =>
                \A el \in {e \in board_elements : e.board_id = board.id} :
                    /\ user = jdr.mj_id => el \in out.body
                    /\ (user # jdr.mj_id /\ ~el.is_visible) => el \notin out.body
                    /\ (user # jdr.mj_id /\ el.is_visible
                            /\ DOMAIN el.visible_to = {"player_ids"}) =>
                           (el \in out.body <=> listed(el))

\* A player just got the board with an element that lists the player.
C7_Witness ==
    /\ last.op = "get_board"
    /\ last.status = OK
    /\ \E jdr \in jdrs : jdr.id = last.args.jdr_id /\ jdr.mj_id # last.args.user
    /\ \E el \in board_elements :
          /\ el.id \in last.args.elements
          /\ DOMAIN el.visible_to = {"player_ids"}
          /\ \E i \in DOMAIN el.visible_to.player_ids :
                 el.visible_to.player_ids[i] = last.args.user

\* C8: getBoard succeeds for the session's MJ and for the users holding an
\* active membership of the session, and for nobody else: any other caller
\* fails Forbidden, and an unknown session fails NotFound.
C8_BoardAccess ==
    \A user \in Users, jdr_id \in JdrIdInputs :
        LET out == get_board(user, jdr_id)
            known == \E jdr \in jdrs : jdr.id = jdr_id
            allowed == \/ \E jdr \in jdrs : jdr.id = jdr_id /\ jdr.mj_id = user
                       \/ \E m \in jdr_memberships : /\ m.jdr_id = jdr_id
                                                     /\ m.user_id = user
                                                     /\ m.status = "active"
        IN  out.status = IF ~known THEN NOT_FOUND
                         ELSE IF allowed THEN OK
                         ELSE FORBIDDEN

\* The board was just refused to a user whose membership is pending.
C8_Witness ==
    /\ last.op = "get_board"
    /\ last.status = FORBIDDEN
    /\ \E m \in jdr_memberships :
          /\ m.jdr_id = last.args.jdr_id
          /\ m.user_id = last.args.user
          /\ m.status = "pending"

\* C9: a user whose active membership has role a passes the check "at least
\* b" exactly when rank(a) >= rank(b), guest 0 < member 1 < mj 2 < admin 3 <
\* owner 4; a user with no active membership fails it for every b.
C9_RankOrder ==
    LET rank == [guest |-> 0, member |-> 1, mj |-> 2, admin |-> 3, owner |-> 4]
        active(user) == {m \in memberships :
                           /\ m.user_id = user
                           /\ m.organization_id = 1
                           /\ m.status = "active"}
        expected(user, b) == \E m \in active(user) : rank[m.role] >= rank[b]
    IN  /\ \A user \in Users, b \in OrganizationRoleType :
              has_permission_in_org(user, 1, b) = expected(user, b)
        /\ last.op = "has_permission_in_org" =>
              last.args.granted = expected(last.args.user, last.args.min_role)

\* An active mj was just refused the check "at least admin".
C9_Witness ==
    /\ last.op = "has_permission_in_org"
    /\ last.args.min_role = "admin"
    /\ ~last.args.granted
    /\ \E m \in memberships :
          /\ m.user_id = last.args.user
          /\ m.role = "mj"
          /\ m.status = "active"

\* C11: a user's global role is user at registration whatever the request
\* carries, and changes afterwards only by a promote call whose caller's
\* stored global role is admin when it is made; a promote call by a caller
\* who is not admin fails Forbidden and changes no user's role.
C11_GlobalRoleOnlyByAdminPromote ==
    [][ /\ \A u \in DOMAIN users' \ DOMAIN users :
              users'[u].global_role = "user"
        /\ \A u \in DOMAIN users :
              users'[u].global_role # users[u].global_role =>
                  /\ last'.op = "promote"
                  /\ last'.status = OK
                  /\ last'.args.user_id = u
                  /\ users[last'.args.current_user].global_role = "admin"
        /\ (last'.op = "promote"
                /\ users[last'.args.current_user].global_role # "admin") =>
              /\ last'.status = FORBIDDEN
              /\ users' = users ]_vars

\* A user who registered asking for admin got user, and has since been made
\* admin by a promote call.
C11_Witness ==
    /\ last.op = "promote"
    /\ last.status = OK
    /\ last.args.user_id # last.args.current_user
    /\ users[last.args.user_id].global_role = "admin"

\* C12 as stated: a changeRole call whose target membership has role owner
\* is rejected with InvalidInput whatever the requester's role and the
\* requested role are, and the target keeps role owner.
C12_OwnerTargetInvalidInputForAnyRequester ==
    \A requester \in Users, organization_id \in OrgIds, target \in Users,
       new_role \in OrganizationRoleType :
        LET membership == First({m \in memberships :
                                   /\ m.user_id = target
                                   /\ m.organization_id = organization_id})
            out == change_member_role(requester, organization_id, target, new_role)
        IN  (membership # NoRow /\ membership.role = "owner") =>
                /\ out.status = BAD_REQUEST
                /\ out.memberships = memberships

\* C12 amended: a changeRole call whose target membership has role owner is
\* rejected whatever the requested role is, and the target keeps role owner:
\* with InvalidInput when the requester's active role in the organization is
\* at least admin, with Forbidden when it is not.
C12_OwnerTargetRejected ==
    \A requester \in Users, organization_id \in OrgIds, target \in Users,
       new_role \in OrganizationRoleType :
        LET membership == First({m \in memberships :
                                   /\ m.user_id = target
                                   /\ m.organization_id = organization_id})
            out == change_member_role(requester, organization_id, target, new_role)
            rank == [guest |-> 0, member |-> 1, mj |-> 2, admin |-> 3, owner |-> 4]
            at_least_admin == \E m \in memberships :
                                  /\ m.user_id = requester
                                  /\ m.organization_id = organization_id
                                  /\ m.status = "active"
                                  /\ rank[m.role] >= 3
        IN  (membership # NoRow /\ membership.role = "owner") =>
                /\ out.status = IF at_least_admin THEN BAD_REQUEST ELSE FORBIDDEN
                /\ out.memberships = memberships

\* A role change aimed at an owner was just refused with InvalidInput in an
\* organization that has an owner and an active admin.
C12_Witness ==
    /\ last.op = "change_member_role"
    /\ last.status = BAD_REQUEST
    /\ \E o \in memberships, a \in memberships :
          /\ o.role = "owner"
          /\ a.role = "admin"
          /\ a.status = "active"
          /\ a.organization_id = o.organization_id

\* C13 as stated: a user whose only membership in an organization is pending
\* is refused by the member-gated route (Forbidden) until an approve of that
\* membership succeeds, and is granted access in every state after it; the
\* member check passes iff the pair has an active membership.
C13_RefusedUntilApprovedGrantedEverAfter ==
    [][ \A m \in memberships :
          LET others == {x \in memberships : /\ x.user_id = m.user_id
                                             /\ x.organization_id = m.organization_id
                                             /\ x.id # m.id}
          IN  /\ (m.status = "pending" /\ others = {}) =>
                    /\ get_organization(m.user_id, m.organization_id).status = FORBIDDEN
                    /\ (\E x \in memberships' : x.id = m.id /\ x.status = "active") =>
                          (last'.op = "approve_member" /\ last'.status = OK)
              /\ (m.status = "active" /\ m.approved_by_id # NoId) =>
                    (get_organization(m.user_id, m.organization_id).status = OK)'
              /\ RequireOrgMember(m.organization_id, m.user_id)
                    <=> (\E x \in memberships : /\ x.user_id = m.user_id
                                                /\ x.organization_id = m.organization_id
                                                /\ x.status = "active") ]_vars

\* C13 amended: a user whose only membership in an organization is pending is
\* refused by the member-gated route (Forbidden) until an approve of that
\* membership succeeds, and is granted access in every later state in which
\* the organization still exists; once the organization is deleted, its
\* memberships are deleted with it and the user is refused again. For every
\* user and organization id the member check passes iff the pair has an
\* active membership.
C13_RefusedUntilApprovedGrantedWhileOrgExists ==
    [][ /\ \A m \in memberships :
             LET others == {x \in memberships : /\ x.user_id = m.user_id
                                                /\ x.organization_id = m.organization_id
                                                /\ x.id # m.id}
                 deleted == ~\E o \in organizations' : o.id = m.organization_id
             IN  /\ (m.status = "pending" /\ others = {}) =>
                       /\ get_organization(m.user_id, m.organization_id).status = FORBIDDEN
                       /\ (\E x \in memberships' : x.id = m.id /\ x.status = "active") =>
                             (last'.op = "approve_member" /\ last'.status = OK)
                 /\ (m.status = "active" /\ m.approved_by_id # NoId) =>
                       (get_organization(m.user_id, m.organization_id).status)' =
                            IF deleted THEN FORBIDDEN ELSE OK
        /\ \A user \in Users, organization_id \in OrgIds :
             /\ RequireOrgMember(organization_id, user)
                   <=> (\E x \in memberships : /\ x.user_id = user
                                               /\ x.organization_id = organization_id
                                               /\ x.status = "active")
             /\ get_organization(user, organization_id).status =
                   IF RequireOrgMember(organization_id, user) THEN OK ELSE FORBIDDEN
      ]_vars

\* The member-gated route has just answered 200 to a user whose membership
\* was pending and has been approved by somebody else.
C13_Witness ==
    /\ last.op = "get_organization"
    /\ last.status = OK
    /\ \E m \in memberships :
          /\ m.user_id = last.args.user
          /\ m.status = "active"
          /\ m.approved_by_id \notin {NoId, m.user_id}

\* C14: joinOrganization answers NotFound if the organization does not
\* exist, InvalidInput (400) if it is inactive, Conflict (400) if the caller
\* already holds an active or pending membership of it, Forbidden if its join
\* mode is closed or invite_only, each time creating nothing; otherwise it
\* creates exactly one membership, of the caller in that organization, with
\* role member and status active if the join mode is open, pending if it is
\* approval, and changes nothing else.
C14_JoinOutcomes ==
    \A user \in Users, organization_id \in 1..(MaxOrgs + 1) :
        LET org == {o \in organizations : o.id = organization_id}
            held == \E m \in memberships : /\ m.user_id = user
                                           /\ m.organization_id = organization_id
                                           /\ m.status \in {"active", "pending"}
            out == join_organization(user, organization_id)
            created == out.memberships \ memberships
            nothing == /\ out.memberships = memberships
                       /\ out.organizations = organizations
        IN  /\ org = {} => out.status = NOT_FOUND /\ nothing
            /\ \A o \in org :
                 /\ ~o.is_active => out.status = BAD_REQUEST /\ nothing
                 /\ (o.is_active /\ held) => out.status = BAD_REQUEST /\ nothing
                 /\ (o.is_active /\ ~held /\ o.join_mode \in {"closed", "invite_only"}) =>
                       out.status = FORBIDDEN /\ nothing
                 /\ (o.is_active /\ ~held /\ o.join_mode \in {"open", "approval"}) =>
                       /\ out.status = OK
                       /\ out.organizations = organizations
                       /\ memberships \subseteq out.memberships
                       /\ Cardinality(created) = 1
                       /\ \A c \in created :
                             /\ c.user_id = user
                             /\ c.organization_id = organization_id
                             /\ c.role = "member"
                             /\ c.status = IF o.join_mode = "open" THEN "active"
                                           ELSE "pending"

\* A request to join an organization in approval mode has just been accepted
\* and left a pending member.
C14_Witness ==
    /\ last.op = "join_org"
    /\ last.status = OK
    /\ \E m \in memberships, o \in organizations :
          /\ m.organization_id = o.id
          /\ o.join_mode = "approval"
          /\ m.role = "member"
          /\ m.status = "pending"

\* C15: in every state reached by requests served one after the other, every
\* (user, organization) pair has at most one membership whose status is
\* active or pending.
C15_OneLiveMembershipPerPair ==
    \A user \in Users, organization_id \in OrgIds :
        Cardinality({m \in memberships :
                       /\ m.user_id = user
                       /\ m.organization_id = organization_id
                       /\ m.status \in {"active", "pending"}}) <= 1

\* A second request to join an active organization has just been refused
\* because the caller already holds a membership of it.
C15_Witness ==
    /\ last.op = "join_org"
    /\ last.status = BAD_REQUEST
    /\ organizations # {}
    /\ \A o \in organizations : o.is_active
    /\ memberships # {}

\* C16: approveOrgMembership succeeds exactly when the requester's active role
\* in the named organization is admin or owner and the membership with the
\* given id is pending in that same organization; it fails Forbidden for a
\* requester below admin, NotFound otherwise, changing nothing. A success
\* turns the membership active and stamps the requester and the current time
\* on it in the same step, touches no other membership, and leaves a state in
\* which approving the same membership again fails NotFound. In every state a
\* membership has both stamps or neither, and only an active one has them.
C16_ApproveGuardedAtomicOnce ==
    [][ /\ \A user \in Users, organization_id \in ApproveOrgIds,
              membership_id \in ApproveMembershipIds :
             (/\ last'.op = "approve_member"
              /\ last'.args = [user |-> user, organization_id |-> organization_id,
                               membership_id |-> membership_id]) =>
                LET pend == {m \in memberships : /\ m.id = membership_id
                                                 /\ m.organization_id = organization_id
                                                 /\ m.status = "pending"}
                    admin == \E r \in memberships : /\ r.user_id = user
                                                    /\ r.organization_id = organization_id
                                                    /\ r.status = "active"
                                                    /\ r.role \in {"admin", "owner"}
                IN  /\ last'.status = IF ~admin THEN FORBIDDEN
                                      ELSE IF pend = {} THEN NOT_FOUND ELSE OK
                    /\ last'.status # OK => memberships' = memberships
                    /\ last'.status = OK =>
                          /\ memberships' = (memberships \ pend) \cup
                                {[m EXCEPT !.status = "active",
                                           !.approved_by_id = user,
                                           !.approved_at = now] : m \in pend}
                          /\ (approve_member(user, organization_id,
                                             membership_id).status)' = NOT_FOUND
        /\ \A m \in memberships' :
             /\ (m.approved_by_id = NoId) <=> (m.approved_at = NoId)
             /\ m.approved_by_id # NoId => m.status = "active"
      ]_vars

\* The owner of one organization has just approved a membership of it while
\* a request to join the other organization is still pending.
C16_Witness ==
    /\ last.op = "approve_member"
    /\ last.status = OK
    /\ \E m \in memberships :
          /\ m.id = last.args.membership_id
          /\ m.organization_id = last.args.organization_id
          /\ m.status = "active"
          /\ m.approved_by_id = last.args.user
          /\ m.approved_at = now
    /\ \E p \in memberships :
          /\ p.status = "pending"
          /\ p.organization_id # last.args.organization_id

\* C17: joinSession answers NotFound if the session does not exist, else
\* InvalidInput (400) if its status is neither open nor in_progress, else
\* Forbidden if the caller has no active membership of the session's
\* organization, else Conflict (400) if the caller holds a pending or active
\* membership of the session, else InvalidInput (400, "full") if the number
\* of active members has reached max_players, each time creating nothing;
\* otherwise it creates exactly one membership, of the caller in that
\* session, pending and without approver, and changes nothing else.
C17_JoinSessionOutcomes ==
    \A user \in Users, jdr_id \in JdrIdInputs :
        LET session == {j \in jdrs : j.id = jdr_id}
            out == join_jdr(user, jdr_id)
            created == out.jdr_memberships \ jdr_memberships
            held == \E m \in jdr_memberships : /\ m.user_id = user
                                               /\ m.jdr_id = jdr_id
                                               /\ m.status \in {"pending", "active"}
            actives == {m \in jdr_memberships : m.jdr_id = jdr_id /\ m.status = "active"}
            nothing == /\ out.jdr_memberships = jdr_memberships
                       /\ out.jdrs = jdrs
                       /\ out.boards = boards
                       /\ out.board_elements = board_elements
        IN  /\ session = {} => out.status = NOT_FOUND /\ nothing
            /\ \A j \in session :
                 LET accepting == j.status \in {"open", "in_progress"}
                     member == \E m \in memberships :
                                  /\ m.user_id = user
                                  /\ m.organization_id = j.organization_id
                                  /\ m.status = "active"
                     full == Cardinality(actives) >= j.max_players
                 IN  /\ out.status =
                          IF ~accepting THEN BAD_REQUEST
                          ELSE IF ~member THEN FORBIDDEN
                          ELSE IF held THEN BAD_REQUEST
                          ELSE IF full THEN BAD_REQUEST
                          ELSE OK
                     /\ out.status # OK => nothing
                     /\ out.status = OK =>
                          /\ out.jdrs = jdrs
                          /\ out.boards = boards
                          /\ out.board_elements = board_elements
                          /\ jdr_memberships \subseteq out.jdr_memberships
                          /\ Cardinality(created) = 1
                          /\ \A c \in created :
                                /\ c.user_id = user
                                /\ c.jdr_id = jdr_id
                                /\ c.status = "pending"
                                /\ c.approved_by_id = NoId

\* A session that accepts players is full, and a member of the organization
\* who holds no membership of it has just been refused.
C17_Witness ==
    /\ last.op = "join_jdr"
    /\ last.status = BAD_REQUEST
    /\ \E j \in jdrs :
          /\ j.status \in {"open", "in_progress"}
          /\ Cardinality({m \in jdr_memberships :
                            m.jdr_id = j.id /\ m.status = "active"}) >= j.max_players
          /\ \E m \in memberships : /\ m.user_id = last.args.user
                                    /\ m.organization_id = j.organization_id
                                    /\ m.status = "active"
          /\ ~\E m \in jdr_memberships : m.user_id = last.args.user

\* C18: a session membership becomes active only in a step that is a
\* successful approveSessionPlayer called by the session's MJ on that
\* membership while it is pending; every active session membership carries
\* the session's MJ as approver; an approve call on a pending membership by
\* anybody but the session's MJ fails Forbidden and changes nothing.
C18_ActiveOnlyByMjApproval ==
    [][ /\ \A x \in jdr_memberships' :
             (/\ x.status = "active"
              /\ ~\E m \in jdr_memberships : m.id = x.id /\ m.status = "active") =>
                /\ last'.op = "approve_player"
                /\ last'.status = OK
                /\ \E m \in jdr_memberships : /\ m.id = x.id
                                              /\ m.jdr_id = x.jdr_id
                                              /\ m.status = "pending"
                /\ \E j \in jdrs : j.id = x.jdr_id /\ j.mj_id = last'.args.user
        /\ \A x \in jdr_memberships' :
             x.status = "active" =>
                \E j \in jdrs' : j.id = x.jdr_id /\ x.approved_by_id = j.mj_id
        /\ \A user \in Users, m \in jdr_memberships, j \in jdrs :
             (m.status = "pending" /\ j.id = m.jdr_id /\ user # j.mj_id) =>
                LET out == approve_player(user, j.id, m.id)
                IN  /\ out.status = FORBIDDEN
                    /\ out.jdr_memberships = jdr_memberships
                    /\ out.jdrs = jdrs
      ]_vars

\* Somebody who is not the session's MJ has just been refused the approval
\* of a pending membership, after the MJ approved another one.
C18_Witness ==
    /\ last.op = "approve_player"
    /\ last.status = FORBIDDEN
    /\ \E j \in jdrs :
          /\ j.mj_id # last.args.user
          /\ \E m \in jdr_memberships : m.jdr_id = j.id /\ m.status = "pending"
          /\ \E m \in jdr_memberships : /\ m.jdr_id = j.id
                                        /\ m.status = "active"
                                        /\ m.approved_by_id = j.mj_id

\* C19: createSession by a user with an active membership of the organization
\* adds, in one step, exactly one session (the caller as MJ, status draft)
\* and exactly one board, of that session, with the default canvas
\* configuration; a caller without an active membership of the organization
\* is answered Forbidden and neither is created; in every state every session
\* has exactly one board and every board belongs to a session.
C19_SessionCreatedWithItsBoard ==
    /\ \A j \in jdrs : Cardinality({b \in boards : b.jdr_id = j.id}) = 1
    /\ \A b \in boards : \E j \in jdrs : j.id = b.jdr_id
    /\ \A user \in Users, organization_id \in 1..(MaxOrgs + 1),
          max_players \in MaxPlayersInputs :
          LET out == create_jdr(user, organization_id, [max_players |-> max_players])
              member == \E m \in memberships : /\ m.user_id = user
                                               /\ m.organization_id = organization_id
                                               /\ m.status = "active"
              new_jdrs == out.jdrs \ jdrs
              new_boards == out.boards \ boards
          IN  /\ out.jdr_memberships = jdr_memberships
              /\ out.board_elements = board_elements
              /\ jdrs \subseteq out.jdrs
              /\ boards \subseteq out.boards
              /\ ~member => /\ out.status = FORBIDDEN
                            /\ new_jdrs = {}
                            /\ new_boards = {}
              /\ member => /\ out.status = OK
                           /\ Cardinality(new_jdrs) = 1
                           /\ Cardinality(new_boards) = 1
                           /\ \A j \in new_jdrs :
                                 /\ j.mj_id = user
                                 /\ j.status = "draft"
                                 /\ j.organization_id = organization_id
                                 /\ j.max_players = max_players
                                 /\ \A b \in new_boards :
                                       /\ b.jdr_id = j.id
                                       /\ b.dimensions = DefaultDimensions

\* A plain member of the organization has just created a session: it is in
\* draft, the member is its MJ, and its board has the default configuration.
C19_Witness ==
    /\ last.op = "create_jdr"
    /\ last.status = OK
    /\ \E j \in jdrs, b \in boards, m \in memberships :
          /\ j.status = "draft"
          /\ m.user_id = j.mj_id
          /\ m.role = "member"
          /\ b.jdr_id = j.id
          /\ b.dimensions = DefaultDimensions

\* C20: revokeAll with a presented token that is unknown fails NotFound, with
\* one already revoked fails AlreadyRevoked (400), with one expired fails
\* Unauthenticated, each time changing no token. Otherwise it succeeds: no
\* token of the presented token's user is left unrevoked, the count returned
\* is the number of that user's tokens that were unrevoked before the call,
\* every token of every other user is unchanged, and no token is added or
\* deleted.
C20_RevokeAll ==
    \A refresh_token \in RefreshTokenInputs :
        LET known == {t \in refresh_tokens : t.token = refresh_token}
            out == revoke_all_user_tokens(refresh_tokens, refresh_token)
        IN  /\ known = {} => /\ out.status = NOT_FOUND
                             /\ out.refresh_tokens = refresh_tokens
            /\ \A t \in known :
                 LET unrevoked == {x \in refresh_tokens :
                                     x.user_id = t.user_id /\ ~x.revoked}
                 IN  /\ t.revoked => /\ out.status = BAD_REQUEST
                                     /\ out.refresh_tokens = refresh_tokens
                     /\ (~t.revoked /\ t.expires_at < now) =>
                           /\ out.status = UNAUTHORIZED
                           /\ out.refresh_tokens = refresh_tokens
                     /\ (~t.revoked /\ t.expires_at >= now) =>
                           /\ out.status = OK
                           /\ \A x \in out.refresh_tokens :
                                 x.user_id = t.user_id => x.revoked
                           /\ out.issued = Cardinality(unrevoked)
                           /\ \A x \in refresh_tokens :
                                 x.user_id # t.user_id => x \in out.refresh_tokens
                           /\ {x.id : x \in out.refresh_tokens} =
                                 {x.id : x \in refresh_tokens}

\* A logout from all devices has just revoked a user's token while another
\* user's token stays valid.
C20_Witness ==
    /\ last.op = "logout_all"
    /\ last.status = OK
    /\ last.args.issued >= 1
    /\ \E t \in refresh_tokens, x \in refresh_tokens :
          /\ t.revoked
          /\ t.revoked_at = now
          /\ x.user_id # t.user_id
          /\ ~x.revoked

\* C21: revoke of a stored unrevoked refresh token succeeds and marks that
\* token, and no other, revoked with the current time as revocation
\* timestamp; a second revoke of it fails AlreadyRevoked (400) and leaves it
\* unchanged; revoke of a token that is not stored fails NotFound and changes
\* nothing.
C21_RevokeOnce ==
    \A refresh_token \in RefreshTokenInputs :
        LET stored == {t \in refresh_tokens : t.token = refresh_token}
            out == revoke_token(refresh_tokens, refresh_token)
            again == revoke_token(out.refresh_tokens, refresh_token)
        IN  /\ stored = {} => /\ out.status = NOT_FOUND
                              /\ out.refresh_tokens = refresh_tokens
            /\ \A t \in stored :
                 /\ t.revoked => /\ out.status = BAD_REQUEST
                                 /\ out.refresh_tokens = refresh_tokens
                 /\ ~t.revoked =>
                       /\ out.status = OK
                       /\ out.refresh_tokens =
                             (refresh_tokens \ {t}) \cup
                                {[t EXCEPT !.revoked = TRUE, !.revoked_at = now]}
                       /\ now # NoId
                       /\ again.status = BAD_REQUEST
                       /\ again.refresh_tokens = out.refresh_tokens

\* A logout has just been refused for a token that an earlier logout revoked.
C21_Witness ==
    /\ last.op = "logout"
    /\ last.status = BAD_REQUEST
    /\ \E t \in refresh_tokens : t.revoked /\ t.revoked_at # NoId

\* C22 as stated: authenticate fails Unauthenticated whenever the email is
\* unknown or the password is wrong, and Forbidden when the account is
\* inactive; a failure creates and deletes no refresh token; a success stores
\* exactly one new unrevoked refresh token owned by that user.
C22_LoginOutcomesWrongPasswordFirst ==
    \A email \in EmailInputs, password \in PasswordInputs :
        LET found == {u \in DOMAIN users : users[u].email = lower_strip(email)}
            out == authenticate_user(refresh_tokens, seq.refresh_tokens, email, password)
            created == out.refresh_tokens \ refresh_tokens
        IN  /\ found = {} => out.status = UNAUTHORIZED
            /\ \A u \in found :
                 /\ password # PasswordOf[u] => out.status = UNAUTHORIZED
                 /\ (password = PasswordOf[u] /\ ~users[u].is_active) =>
                       out.status = FORBIDDEN
                 /\ out.status = OK =>
                       /\ Cardinality(created) = 1
                       /\ \A t \in created : t.user_id = u /\ ~t.revoked
            /\ out.status # OK => out.refresh_tokens = refresh_tokens

\* C22 amended: authenticate fails Unauthenticated when the email is unknown,
\* Forbidden when the account is inactive, whether the password is right or
\* wrong, and Unauthenticated when the account is active and the password is
\* wrong; a failure creates and deletes no refresh token; a success stores
\* exactly one new refresh token, unrevoked and owned by that user, and
\* changes no token of another user.
C22_LoginOutcomes ==
    \A email \in EmailInputs, password \in PasswordInputs :
        LET found == {u \in DOMAIN users : users[u].email = lower_strip(email)}
            out == authenticate_user(refresh_tokens, seq.refresh_tokens, email, password)
            created == out.refresh_tokens \ refresh_tokens
        IN  /\ found = {} => out.status = UNAUTHORIZED
            /\ \A u \in found :
                 /\ out.status = IF ~users[u].is_active THEN FORBIDDEN
                                 ELSE IF password # PasswordOf[u] THEN UNAUTHORIZED
                                 ELSE OK
                 /\ out.status = OK =>
                       /\ Cardinality(created) = 1
                       /\ \A t \in created : /\ t.user_id = u
                                             /\ ~t.revoked
                                             /\ t.id = out.issued
                       /\ \A t \in refresh_tokens :
                             t.user_id # u => t \in out.refresh_tokens
            /\ out.status # OK => out.refresh_tokens = refresh_tokens

\* A login to a disabled account has just been refused with Forbidden while
\* another account holds a refresh token.
C22_Witness ==
    /\ last.op = "login"
    /\ last.status = FORBIDDEN
    /\ \E u \in DOMAIN users : ~users[u].is_active
    /\ refresh_tokens # {}

\* C23: the image of a board element is its own direct image if it has one;
\* else the avatar of its linked character if there is one; else the image
\* of its linked game item, which is the item's custom image if it has one,
\* else its template's image, else none; else none. A game item with a
\* custom image resolves to it whatever its template is, and one without
\* resolves to its template's image.
C23_ImageResolution ==
    \A e \in board_elements :
        LET none == NULL
            item == IF e.game_item = NoRow THEN none
                    ELSE IF e.game_item.custom_image # NoRow
                    THEN "/uploads/items/custom.png"
                    ELSE IF e.game_item.template = NoRow THEN none
                    ELSE IF e.game_item.template.image = NoRow THEN none
                    ELSE "/uploads/items/template.png"
            avatar == IF e.character = NoRow THEN none
                      ELSE IF e.character.avatar_image = NoRow THEN none
                      ELSE "/uploads/characters/c.png"
            own == IF e.image = NoRow THEN none ELSE "/uploads/elements/e.png"
            resolved == IF own # none THEN own
                        ELSE IF avatar # none THEN avatar
                        ELSE item
        IN  /\ BoardElement_image_url(e) = resolved
            /\ e.game_item # NoRow => GameItem_image_url(e.game_item) = item
            /\ last.op = "element_image_url" => last.args.url = resolved
            /\ last.op = "item_image_url" => last.args.url = item

\* An element without image, whose character has no avatar and whose item
\* has a custom image and a template with another image, has just resolved
\* to the custom image.
C23_Witness ==
    /\ last.op = "element_image_url"
    /\ last.args.url = "/uploads/items/custom.png"
    /\ \E e \in board_elements :
          /\ e.image = NoRow
          /\ e.character # NoRow
          /\ e.game_item # NoRow
          /\ e.game_item.template # NoRow
          /\ e.game_item.template.image # NoRow

\* C24: after two successive updates of the board's configuration with
\* patches P1 then P2, the configuration contains every key of the original
\* configuration, of P1 and of P2, each with the value of the latest patch
\* that mentions it, else the original value. The same holds for the
\* position and for the content of an element under two successive element
\* updates, a patch without the map counting as an empty one.
C24_PatchesNeverLoseKeys ==
    [][ LET Latest(original, first, second, result) ==
                \A k \in DOMAIN original \cup DOMAIN first \cup DOMAIN second :
                    /\ k \in DOMAIN result
                    /\ result[k] = IF k \in DOMAIN second THEN second[k]
                                   ELSE IF k \in DOMAIN first THEN first[k]
                                   ELSE original[k]
            Part(patch, field) ==
                IF field \in DOMAIN patch THEN patch[field] ELSE EmptyDict
        IN  /\ (/\ last.op = "update_board" /\ last.status = OK
                /\ last'.op = "update_board" /\ last'.status = OK) =>
                  \A b \in boards' :
                      Latest(last.args.before, last.args.patch, last'.args.patch,
                             b.dimensions)
            /\ (/\ last.op = "update_board_element" /\ last.status = OK
                /\ last'.op = "update_board_element" /\ last'.status = OK) =>
                  \A el \in board_elements' :
                      /\ Latest(last.args.before.position,
                                Part(last.args.patch, "position"),
                                Part(last'.args.patch, "position"), el.position)
                      /\ Latest(last.args.before.content,
                                Part(last.args.patch, "content"),
                                Part(last'.args.patch, "content"), el.content)
      ]_vars

\* The board has just been given a grid size after having been given a
\* width: it has both, and the height it was created with.
C24_Witness ==
    /\ last.op = "update_board"
    /\ last.status = OK
    /\ last.args.patch = [grid_size |-> 25]
    /\ last.args.before.width = 800
    /\ \E b \in boards : /\ b.dimensions.width = 800
                         /\ b.dimensions.grid_size = 25
                         /\ b.dimensions.height = 1080

\* C25: after any sequence of give-item operations there is at most one
\* inventory row per (character, game item) pair and its quantity is the sum
\* of the quantities given for that pair; a give naming a character or an item
\* outside the session answers 404 and leaves the inventory as it was.
C25_OneStackedRowPerPair ==
    /\ \A pair \in InventoryPairs :
          LET rows == {i \in character_inventory :
                         /\ i.character_id = pair[1]
                         /\ i.game_item_id = pair[2]}
          IN  /\ Cardinality(rows) <= 1
              /\ rows = {} <=> given[pair] = 0
              /\ \A i \in rows : i.quantity = given[pair]
    /\ \A i, k \in character_inventory : i.id = k.id => i = k
    /\ \A mj \in Users, jdr_id \in InventoryIdInputs,
          character_id \in InventoryIdInputs,
          game_item_id \in InventoryIdInputs, quantity \in QuantityInputs :
          LET out == give_item_to_character(mj, jdr_id,
                         [character_id |-> character_id,
                          game_item_id |-> game_item_id,
                          quantity |-> quantity])
          IN  ( /\ _check_is_mj(mj, jdr_id) = OK
                /\ \/ ~\E c \in characters :
                           c.id = character_id /\ c.jdr_id = jdr_id
                   \/ ~\E g \in game_items :
                           g.id = game_item_id /\ g.jdr_id = jdr_id )
              => /\ out.status = NOT_FOUND
                 /\ out.character_inventory = character_inventory

\* A character holding 3 was given 2 more and holds one row of 5, and the
\* last request, naming the other session's item, was answered 404.
C25_Witness ==
    /\ last.op = "give_item"
    /\ last.status = NOT_FOUND
    /\ "mj" \in DOMAIN last.args
    /\ _check_is_mj(last.args.mj, last.args.jdr_id) = OK
    /\ \E c \in characters, g \in game_items :
          /\ c.id = last.args.data.character_id
          /\ g.id = last.args.data.game_item_id
          /\ c.jdr_id = last.args.jdr_id
          /\ g.jdr_id # last.args.jdr_id
    /\ \E i \in character_inventory : i.quantity = 5 /\ given[<<i.character_id, i.game_item_id>>] = 5

\* C26: a request answered with an error (400, 401, 403, 404) leaves every
\* table (users, refresh tokens, organizations, memberships, sessions, session
\* memberships, boards, elements, characters, items, inventory) as it was.
C26_ErrorsChangeNothing ==
    [][last'.status # OK =>
          UNCHANGED <<users, refresh_tokens, organizations, memberships, jdrs,
                      jdr_memberships, boards, board_elements, characters,
                      game_items, character_inventory>>]_vars

\* A renewal was refused with 403 for a disabled account and the token it
\* presented is still stored unrevoked.
C26_Witness ==
    /\ last.op = "refresh"
    /\ last.status = FORBIDDEN
    /\ \E t \in refresh_tokens :
          /\ t.token = last.args.refresh_token
          /\ ~t.revoked
          /\ ~users[t.user_id].is_active

\* C27: after any sequence of create and update calls no two organizations
\* share a slug: a create with a slug in use answers 400 and changes nothing,
\* an update by an admin of the organization to a slug another organization
\* holds answers 400 and changes nothing, and an update that repeats the
\* organization's own slug succeeds and leaves the slug as it is.
C27_SlugsStayUnique ==
    /\ \A o1, o2 \in organizations : o1.slug = o2.slug => o1.id = o2.id
    /\ \A user \in Users, slug \in SlugInputs :
          LET out == create_organization(user, slug, "open")
          IN  (\E o \in organizations : o.slug = slug)
              => /\ out.status = BAD_REQUEST
                 /\ out.organizations = organizations
                 /\ out.memberships = memberships
    /\ \A user \in Users, org \in organizations, slug \in SlugInputs :
          LET out == update_org(user, org.id, [f \in {"slug"} |-> slug])
          IN  has_permission_in_org(user, org.id, "admin")
              => /\ (\E o \in organizations : o.slug = slug /\ o.id # org.id)
                    => /\ out.status = BAD_REQUEST
                       /\ out.organizations = organizations
                       /\ out.memberships = memberships
                 /\ slug = org.slug
                    => /\ out.status = OK
                       /\ out.organizations = organizations
                 /\ (~\E o \in organizations : o.slug = slug)
                    => /\ out.status = OK
                       /\ out.organizations =
                             (organizations \ {org})
                               \cup {[org EXCEPT !.slug = slug]}

\* Two organizations exist, one was renamed, and the last update, to the
\* slug of the other one, was answered 400.
C27_Witness ==
    /\ last.op = "update_org"
    /\ last.status = BAD_REQUEST
    /\ Cardinality(organizations) = 2
    /\ \E o \in organizations : o.slug = "forge"

\* C28: in every reachable state the number of active memberships of a
\* session is at most the session's max_players.
C28_ActiveWithinCapacity ==
    \A jdr \in jdrs :
        Cardinality({m \in jdr_memberships :
                       m.jdr_id = jdr.id /\ m.status = "active"})
          <= jdr.max_players

\* C29: visible_to is evaluated by first match in the order all, player_ids,
\* character_ids: None and the empty descriptor admit every player; all = true
\* admits every player whatever else the descriptor holds; otherwise, when
\* player_ids is present, a player is admitted iff the list names the player,
\* whatever character_ids and the linked character are.
C29_FirstMatchAllThenPlayerIds ==
    \A element \in board_elements, user \in Users :
        LET visible_to == element.visible_to
            visible == _is_visible_to_user(element, user)
            all_true == "all" \in DOMAIN visible_to /\ visible_to["all"] = TRUE
        IN  IF visible_to = NoneDict \/ visible_to = EmptyDict THEN visible
            ELSE /\ all_true => visible
                 /\ (~all_true /\ "player_ids" \in DOMAIN visible_to)
                    => (visible <=>
                          \E i \in DOMAIN visible_to["player_ids"] :
                              visible_to["player_ids"][i] = user)

\* A player was admitted to an element whose descriptor has all = true and a
\* player_ids and a character_ids that do not name the player or a character
\* of the player.
C29_Witness ==
    /\ last.op = "is_visible_to_user"
    /\ last.args.visible
    /\ \E element \in board_elements :
          /\ element.visible_to = [all |-> TRUE, player_ids |-> <<1>>,
                                   character_ids |-> <<1>>]
          /\ last.args.user = NumUsers
          /\ element.character_id = NoId

\* C30: under a descriptor decided by character_ids (not None, all not true,
\* no player_ids, character_ids present) a player is admitted iff the element
\* is linked to a character the player owns, whichever ids the list holds; an
\* element linked to no character is hidden from every player.
C30_CharacterOwnerDecides ==
    \A element \in board_elements, user \in Users :
        LET visible_to == element.visible_to
            visible == _is_visible_to_user(element, user)
        IN  ( /\ visible_to # NoneDict
              /\ "character_ids" \in DOMAIN visible_to
              /\ "player_ids" \notin DOMAIN visible_to
              /\ ~("all" \in DOMAIN visible_to /\ visible_to["all"] = TRUE) )
            => /\ visible <=>
                     \E c \in characters :
                         c.id = element.character_id /\ c.owner_id = user
               /\ element.character_id = NoId => ~visible

\* A player was admitted to an element linked to the player's character
\* although character_ids names another character only.
C30_Witness ==
    /\ last.op = "is_visible_to_user"
    /\ last.args.visible
    /\ \E element \in board_elements, c \in characters :
          /\ element.visible_to = [character_ids |-> <<NumUsers>>]
          /\ element.character_id = c.id
          /\ c.id # NumUsers
          /\ c.owner_id = last.args.user

\* C31 as stated: under character_ids with no linked character the filter
\* denies, and a descriptor that is not empty and to which none of the three
\* modes applies (all not true, no player_ids, no character_ids) does not hide
\* the element from a player.
C31_NoModeShowsElement ==
    \A element \in board_elements, user \in Users :
        LET visible_to == element.visible_to
            visible == _is_visible_to_user(element, user)
            all_true == "all" \in DOMAIN visible_to /\ visible_to["all"] = TRUE
        IN  (visible_to # NoneDict /\ visible_to # EmptyDict /\ ~all_true
               /\ "player_ids" \notin DOMAIN visible_to)
            => /\ ("character_ids" \in DOMAIN visible_to
                     /\ element.character_id = NoId) => ~visible
               /\ "character_ids" \notin DOMAIN visible_to => visible

\* C31: under character_ids with no linked character the filter denies, and
\* so it does for a descriptor that is not empty and to which none of the
\* three modes applies ({all: false} alone): the filter returns False for
\* every user and get_board leaves the element out of what a player who is
\* not the MJ receives, although is_visible is true.
C31_NoModeHidesElement ==
    \A element \in board_elements, user \in Users :
        LET visible_to == element.visible_to
            visible == _is_visible_to_user(element, user)
            all_true == "all" \in DOMAIN visible_to /\ visible_to["all"] = TRUE
            board == First({b \in boards : b.id = element.board_id})
            jdr == First({j \in jdrs : j.id = board.jdr_id})
            out == get_board(user, jdr.id)
        IN  (visible_to # NoneDict /\ visible_to # EmptyDict /\ ~all_true
               /\ "player_ids" \notin DOMAIN visible_to)
            => /\ ("character_ids" \in DOMAIN visible_to
                     /\ element.character_id = NoId) => ~visible
               /\ "character_ids" \notin DOMAIN visible_to
                  => /\ ~visible
                     /\ element.is_visible
                     /\ (jdr.mj_id # user /\ out.status = OK)
                        => element \notin out.body
                     /\ jdr.mj_id = user => element \in out.body

\* The filter was asked about the element whose descriptor is {all: false}
\* alone, for a player who is not the MJ, and answered False.
C31_Witness ==
    /\ last.op = "is_visible_to_user"
    /\ ~last.args.visible
    /\ \E element \in board_elements, jdr \in jdrs :
          /\ element.visible_to = [all |-> FALSE]
          /\ jdr.mj_id # last.args.user
          /\ get_board(last.args.user, jdr.id).status = OK

\* C32: every element created by add_element has a position with all nine
\* default keys, the keys of the request overriding the matching defaults and
\* adding the others, for every request, one without position included.
C32_CreatedWithDefaultPosition ==
    /\ \A element \in board_elements :
          DOMAIN validate_position(EmptyDict) \subseteq DOMAIN element.position
    /\ (last.op = "add_element" /\ last.status = OK)
       => \E element \in board_elements :
             /\ element.id = seq.board_elements - 1
             /\ element.position =
                   validate_position(IF "position" \in DOMAIN last.args.body
                                     THEN last.args.body.position
                                     ELSE EmptyDict)

\* C33: in every reachable state the character and the game item an element
\* refers to belong to the session of the element's board; add_element by the
\* MJ with a character or an item of another session answers 404 and adds no
\* element; and no step changes the board, the character or the item of an
\* element that exists before and after it.
C33_ReferencesStayInSession ==
    /\ [](\A element \in board_elements :
            LET board == First({b \in boards : b.id = element.board_id})
            IN  /\ board # NoRow
                /\ element.character_id # NoId
                   => \E c \in characters : /\ c.id = element.character_id
                                            /\ c.jdr_id = board.jdr_id
                /\ element.game_item_id # NoId
                   => \E g \in game_items : /\ g.id = element.game_item_id
                                            /\ g.jdr_id = board.jdr_id)
    /\ [](\A jdr \in jdrs, body \in ElementBodies :
            LET data == BoardElementCreate(body)
                out == add_board_element(jdr.mj_id, jdr.id, data)
            IN  ( \/ \E c \in characters : /\ c.id = data.character_id
                                           /\ c.jdr_id # jdr.id
                  \/ \E g \in game_items : /\ g.id = data.game_item_id
                                           /\ g.jdr_id # jdr.id )
                => /\ out.status = NOT_FOUND
                   /\ out.board_elements = board_elements)
    /\ [][\A before \in board_elements, after \in board_elements' :
            before.id = after.id
            => /\ after.board_id = before.board_id
               /\ after.character_id = before.character_id
               /\ after.game_item_id = before.game_item_id]_vars

\* The MJ of a session whose board shows one of its characters asked for an
\* element with the other session's item and was answered 404.
C33_Witness ==
    /\ last.op = "add_element"
    /\ last.status = NOT_FOUND
    /\ "body" \in DOMAIN last.args
    /\ "game_item_id" \in DOMAIN last.args.body
    /\ \E g \in game_items : /\ g.id = last.args.body.game_item_id
                             /\ g.jdr_id # last.args.jdr_id
    /\ \E element \in board_elements, board \in boards :
          /\ board.id = element.board_id
          /\ board.jdr_id = last.args.jdr_id
          /\ element.character_id # NoId
          /\ "y" \in DOMAIN element.position

\* C34: update_element and delete_element called through a session by its MJ
\* with the id of an element of another session's board answer 404 and return
\* the elements unchanged; and a step of either route through a session
\* leaves every element of the other boards as it was.
C34_OtherBoardsElementsUntouched ==
    /\ [](\A jdr \in jdrs, element \in board_elements :
            LET board == First({b \in boards : b.id = element.board_id})
                moved == update_board_element(jdr.mj_id, jdr.id, element.id,
                                              [position |-> [y |-> 7]])
                hidden == update_board_element(jdr.mj_id, jdr.id, element.id,
                                               [is_visible |-> FALSE])
                deleted == delete_board_element(jdr.mj_id, jdr.id, element.id)
            IN  board.jdr_id # jdr.id
                => /\ moved.status = NOT_FOUND
                   /\ moved.board_elements = board_elements
                   /\ hidden.status = NOT_FOUND
                   /\ hidden.board_elements = board_elements
                   /\ deleted.status = NOT_FOUND
                   /\ deleted.board_elements = board_elements)
    /\ [][(last'.op \in {"update_element", "delete_element"}
             /\ "jdr_id" \in DOMAIN last'.args)
          => \A element \in board_elements, board \in boards :
                (board.id = element.board_id /\ board.jdr_id # last'.args.jdr_id)
                => element \in board_elements']_vars

\* The MJ of a session asked to delete an element of the other session's
\* board, was answered 404, and the element is still there.
C34_Witness ==
    /\ last.op = "delete_element"
    /\ last.status = NOT_FOUND
    /\ "element_id" \in DOMAIN last.args
    /\ \E element \in board_elements, board \in boards :
          /\ element.id = last.args.element_id
          /\ board.id = element.board_id
          /\ board.jdr_id # last.args.jdr_id

\* C35: a renewal, a revocation and a login, for any token or credentials
\* presented, keep every other token that is unrevoked and unexpired as it is
\* stored; the cleanup for a user deletes only that user's tokens that are
\* expired or were revoked more than 7 days ago, and a login or a renewal
\* makes no other row disappear.
C35_OtherLiveTokensKept ==
    LET live(t) == ~t.revoked /\ ~(t.expires_at < now)
        stale(t, user_id) ==
            /\ t.user_id = user_id
            /\ \/ t.expires_at < now
               \/ (t.revoked_at # NoId /\ t.revoked_at < now - 7)
        kept(out, presented) ==
            \A t \in refresh_tokens :
                (live(t) /\ t.token # presented) => t \in out.refresh_tokens
        gone(out) == {t \in refresh_tokens :
                        ~\E r \in out.refresh_tokens : r.id = t.id}
    IN  /\ \A refresh_token \in RefreshTokenInputs :
              LET renewed == renew_token(refresh_tokens, seq.refresh_tokens,
                                         refresh_token)
                  revoked == revoke_token(refresh_tokens, refresh_token)
              IN  /\ kept(renewed, refresh_token)
                  /\ kept(revoked, refresh_token)
                  /\ gone(revoked) = {}
                  /\ \A t \in gone(renewed) :
                        \E owner \in refresh_tokens :
                            /\ owner.token = refresh_token
                            /\ stale(t, owner.user_id)
        /\ \A email \in EmailInputs, password \in PasswordInputs :
              LET out == authenticate_user(refresh_tokens, seq.refresh_tokens,
                                           email, password)
              IN  /\ kept(out, NoId)
                  /\ \A t \in gone(out) :
                        /\ stale(t, t.user_id)
                        /\ users[t.user_id].email = lower_strip(email)
        /\ \A user_id \in Users :
              LET after == _cleanup_expired_tokens(refresh_tokens, user_id)
              IN  /\ after \subseteq refresh_tokens
                  /\ \A t \in refresh_tokens :
                        t \notin after <=> stale(t, user_id)

\* A user logged in while holding a live token, the cleanup of that login
\* ran, and the user now holds two live tokens.
C35_Witness ==
    /\ last.op = "login"
    /\ last.status = OK
    /\ \E t1, t2 \in refresh_tokens :
          /\ t1.id # t2.id
          /\ t1.user_id = t2.user_id
          /\ ~t1.revoked /\ ~(t1.expires_at < now)
          /\ ~t2.revoked /\ ~(t2.expires_at < now)

\* C36: a join request that passed its reads commits its pending membership
\* whatever another request committed in between: the commit answers 200,
\* adds the row and keeps the others, also when the same user has a pending
\* membership of that session by then, and two requests of different users
\* stay admitted side by side for the one free place of a session.
C36_RacingJoinsBothCommit ==
    /\ [][\A w \in Workers :
            (workers[w].pc = "checked" /\ workers'[w] = Idle)
            => /\ last'.status = OK
               /\ jdr_memberships \subseteq jdr_memberships'
               /\ \E m \in jdr_memberships' \ jdr_memberships :
                     /\ m.user_id = workers[w].user
                     /\ m.jdr_id = workers[w].jdr_id
                     /\ m.status = "pending"]_vars
    /\ [][\A w \in Workers :
            (workers[w] = Idle /\ workers'[w] # Idle)
            => /\ join_jdr(workers'[w].user, workers'[w].jdr_id).status = OK
               /\ \A other \in Workers \ {w} : workers'[other] = workers[other]]_vars

\* Two requests of one user for the first session both committed a pending
\* membership, and two requests of different users for the single place of
\* the second session have both passed the capacity check and not committed.
C36_Witness ==
    /\ \E m1, m2 \in jdr_memberships :
          /\ m1.id # m2.id
          /\ m1.user_id = m2.user_id
          /\ m1.jdr_id = m2.jdr_id
          /\ m1.status = "pending" /\ m2.status = "pending"
    /\ \E w1, w2 \in Workers :
          /\ workers[w1].pc = "checked" /\ workers[w2].pc = "checked"
          /\ workers[w1].user # workers[w2].user
          /\ workers[w1].jdr_id = workers[w2].jdr_id
          /\ \E jdr \in jdrs :
                /\ jdr.id = workers[w1].jdr_id
                /\ jdr.max_players = 1
                /\ ~\E m \in jdr_memberships : m.jdr_id = jdr.id

\* C37: a session's MJ is the user who created it, in every reachable state.
\* A session that a request creates has the requesting user as its MJ,
\* whatever the request; a session that is there before and after a step has
\* the same MJ and the same id; and update_jdr called by the MJ with any
\* body, one that names another mj_id included, succeeds and leaves the MJ
\* reference as it was.
C37_MjIsTheCreator ==
    /\ [](\A user \in Users, organization_id \in OrgIds,
            max_players \in MaxPlayersInputs :
             LET out == create_jdr(user, organization_id,
                                   [max_players |-> max_players])
             IN  out.status = OK =>
                    /\ Cardinality(out.jdrs \ jdrs) = 1
                    /\ \A j \in out.jdrs \ jdrs : j.mj_id = user)
    /\ [](\A jdr \in jdrs, body \in JDRUpdateBodies :
             LET out == update_jdr(jdr.mj_id, jdr.id, JDRUpdate(body))
             IN  /\ out.status = OK
                 /\ \A j \in out.jdrs : j.id = jdr.id => j.mj_id = jdr.mj_id)
    /\ [][\A j \in jdrs : \A k \in jdrs' : k.id = j.id => k.mj_id = j.mj_id]_vars

C37_Witness ==
    /\ last.op = "update_jdr"
    /\ last.status = OK
    /\ "body" \in DOMAIN last.args
    /\ "mj_id" \in DOMAIN last.args.body
    /\ \E j \in jdrs : /\ j.id = last.args.jdr_id
                       /\ j.mj_id = last.args.user
                       /\ last.args.body.mj_id # j.mj_id
                       /\ "max_players" \in DOMAIN last.args.body
                       /\ j.max_players = last.args.body.max_players

\* C38: get_board, called by the MJ or by a player, changes no persisted
\* state.  In every reachable state the rows get_board returns for the
\* tables are the rows stored, for every caller and session; and a step that
\* is a get_board leaves sessions, memberships, boards, elements, characters
\* and items as they were, so that what the MJ and every player read from
\* every board after it is what they read before it.
C38_GetBoardChangesNothing ==
    /\ [](\A user \in Users, jdr_id \in InventoryIdInputs :
             LET out == get_board(user, jdr_id)
             IN  /\ out.jdrs = jdrs
                 /\ out.jdr_memberships = jdr_memberships
                 /\ out.boards = boards
                 /\ out.board_elements = board_elements)
    /\ [][last'.op = "get_board" =>
            /\ UNCHANGED <<users, orgVars, authVars, jdrVars>>
            /\ \A reader \in Users, jdr_id \in InventoryIdInputs :
                  get_board(reader, jdr_id)' = get_board(reader, jdr_id)]_vars

\* A player has read a board that holds an element the answer left out; the
\* element is stored and the MJ's read returns it.
C38_Witness ==
    /\ last.op = "get_board"
    /\ last.status = OK
    /\ "elements" \in DOMAIN last.args
    /\ \E jdr \in jdrs, b \in boards, el \in board_elements :
          /\ jdr.id = last.args.jdr_id
          /\ jdr.mj_id # last.args.user
          /\ b.jdr_id = jdr.id
          /\ el.board_id = b.id
          /\ el.id \notin last.args.elements
          /\ el \in get_board(jdr.mj_id, jdr.id).body

\* The elements of a session's board admitted to a user: is_visible is true
\* and the descriptor admits the user.
C39_Admitted(P, jdr_id) ==
    {el \in board_elements :
        /\ \E b \in boards : b.jdr_id = jdr_id /\ el.board_id = b.id
        /\ el.is_visible
        /\ _is_visible_to_user(el, P)}

\* C39: for a player P, the elements get_board returns are the same in any
\* two board states that agree on the elements admitted to P.  In every
\* reachable state a player's answer is exactly the set of the admitted
\* elements; and over every step that keeps the admitted elements of a
\* player's board as they were while the stored rows change (the MJ adding,
\* editing or deleting elements hidden from P) the player's answer is the
\* same before and after.
C39_HiddenElementsDoNotInfluence ==
    /\ [](\A jdr \in jdrs, P \in Users :
             LET out == get_board(P, jdr.id)
             IN  P # jdr.mj_id /\ out.status = OK =>
                    out.body = C39_Admitted(P, jdr.id))
    /\ [][\A jdr \in jdrs, P \in Users :
             (/\ jdrVars' # jdrVars
              /\ P # jdr.mj_id
              /\ get_board(P, jdr.id).status = OK
              /\ get_board(P, jdr.id)'.status = OK
              /\ C39_Admitted(P, jdr.id)' = C39_Admitted(P, jdr.id))
             => get_board(P, jdr.id)'.body = get_board(P, jdr.id).body]_vars

\* A player has read a board that holds an element admitted to the player
\* and an element hidden from the player.
C39_Witness ==
    /\ last.op = "get_board"
    /\ last.status = OK
    /\ "elements" \in DOMAIN last.args
    /\ \E jdr \in jdrs, b \in boards :
          /\ jdr.id = last.args.jdr_id
          /\ jdr.mj_id # last.args.user
          /\ b.jdr_id = jdr.id
          /\ \E shown, hidden \in board_elements :
                /\ shown.board_id = b.id
                /\ hidden.board_id = b.id
                /\ shown.id \in last.args.elements
                /\ hidden.id \notin last.args.elements
                /\ last.args.elements = {shown.id}

\* C40: update_character_gold with any positive or negative amount sets the
\* character's gold to max(0, gold + amount), so a withdrawal larger than
\* the balance yields 0; and no character's gold is negative in any
\* reachable state.  For every character, whose gold is a number that is not
\* negative, and every finite amount, the MJ's request succeeds and stores
\* gold + amount, or 0 when that is below 0 (the sum taken in floats: inf
\* past the largest finite value); for every amount, infinite or nan
\* included, what it stores is a number that is not negative.
C40_GoldFlooredAtZero ==
    /\ \A c \in characters : c.gold \in 0..PosInf
    /\ \A jdr \in jdrs, c \in characters, amount \in AmountInputs :
          c.jdr_id = jdr.id =>
             LET out == update_character_gold(jdr.mj_id, jdr.id, c.id, amount)
                 after == First({k \in out.characters : k.id = c.id})
             IN  /\ out.status = OK
                 /\ after.gold \in 0..PosInf
                 /\ out.characters \ {after} = characters \ {c}
                 /\ (amount \in (0 - MaxGold)..MaxGold /\ c.gold <= MaxGold) =>
                       after.gold = IF c.gold + amount < 0 THEN 0
                                    ELSE IF c.gold + amount > MaxGold THEN PosInf
                                    ELSE c.gold + amount
                 /\ (amount \in (0 - MaxGold)..MaxGold /\ c.gold = PosInf) =>
                       after.gold = PosInf

\* A withdrawal larger than the balance has left a character with 0.
C40_Witness ==
    /\ last.op = "update_character_gold"
    /\ last.status = OK
    /\ "amount" \in DOMAIN last.args
    /\ last.args.was \in 1..MaxGold
    /\ last.args.amount \in (0 - MaxGold)..(0 - 1)
    /\ last.args.was + last.args.amount < 0
    /\ \E c \in characters : c.id = last.args.character_id /\ c.gold = 0

\* C10: right after createOrganization the new organization has exactly one
\* membership, the creator's, owner and active; and every existing
\* organization has at least one active owner membership.
C10_OwnerAtCreationAndEver ==
    /\ (last.op = "create_org" /\ last.status = OK) =>
          \E o \in organizations :
              /\ o.id = seq.organizations - 1
              /\ \E m \in memberships :
                    /\ {n \in memberships : n.organization_id = o.id} = {m}
                    /\ m.user_id = last.args.user
                    /\ m.role = "owner"
                    /\ m.status = "active"
    /\ \A o \in organizations :
          \E m \in memberships :
              m.organization_id = o.id /\ m.role = "owner" /\ m.status = "active"

\* C10 witness: an organization has just been created.
C10_Witness ==
    /\ last.op = "create_org"
    /\ last.status = OK
    /\ organizations # {}

====
